---- MODULE Spec2Model ----
(***************************************************************************)
(* A model of the TOML emission engine of toml-rs (src/ser.rs) and of the  *)
(* Value producer that drives it (src/value.rs).                           *)
(*                                                                         *)
(* The engine is a consumer of serde producer calls.  One to_string call   *)
(* is modelled as a sequence of producer calls; each action is one call    *)
(* of the producer into the engine, together with everything the engine    *)
(* does synchronously for it.  The chain of State frames is the sequence   *)
(* `stack` of the aggregates (SerializeSeq, SerializeTable) that are open: *)
(* the State of the Serializer an aggregate at position i hands to its     *)
(* children is the chain stack[1..i], State::End being the empty chain.    *)
(* Text is a sequence of code points.                                      *)
(***************************************************************************)
EXTENDS Integers, Sequences, FiniteSets, TLC

VARIABLES
    dst,      \* Serializer.dst: the output buffer
    stack,    \* the open aggregates, outermost first, with their Cells
    result,   \* what to_string returned: "none" while it runs
    calls,    \* number of producer calls made so far
    input,    \* the Value given to to_string (NoValue for a generic producer)
    todo,     \* the producer calls the Value producer has still to make
    built,    \* the Value that Value::try_from returned (NoValue if none)
    earlier   \* what an earlier to_string call on the same input returned

vars == <<dst, stack, result, calls, input, todo, built, earlier>>

(***************************************************************************)
(* Bounds of the model.                                                    *)
(***************************************************************************)
MaxCalls == 5     \* producer calls in one to_string call (generic producer)
MaxDepth == 3     \* open aggregates at one time (generic producer)
MaxLen == 2       \* characters of a string or key (texts)
MaxTenths == 25   \* a finite float is between -MaxTenths/10 and MaxTenths/10
MaxNodes == 4     \* nodes of the Value given to to_string (Value producer)
IntBits == 6      \* bits of an i64 and of a u64 (integer widths, scaled)

(***************************************************************************)
(* Text.  A character is its code point; a text is a sequence of them.     *)
(***************************************************************************)
\* The code point of a character written as a one-character string.
Ord(c) ==
    CASE c = "\n" -> 10  [] c = "\t" -> 9   [] c = "\r" -> 13 [] c = "\f" -> 12
      [] c = " "  -> 32  [] c = "\"" -> 34  [] c = "\\" -> 92
      [] c = "["  -> 91  [] c = "]"  -> 93  [] c = ","  -> 44 [] c = "."  -> 46
      [] c = "="  -> 61  [] c = "-"  -> 45  [] c = "_"  -> 95
      [] c = "0"  -> 48  [] c = "1"  -> 49  [] c = "2"  -> 50 [] c = "3"  -> 51
      [] c = "4"  -> 52  [] c = "5"  -> 53  [] c = "6"  -> 54 [] c = "7"  -> 55
      [] c = "8"  -> 56  [] c = "9"  -> 57
      [] c = "N"  -> 78  [] c = "a"  -> 97  [] c = "b"  -> 98 [] c = "c"  -> 99
      [] c = "e"  -> 101 [] c = "f"  -> 102 [] c = "i"  -> 105
      [] c = "l"  -> 108 [] c = "n"  -> 110 [] c = "r"  -> 114
      [] c = "s"  -> 115 [] c = "t"  -> 116 [] c = "u"  -> 117
      [] c = "x"  -> 120 [] c = "y"  -> 121

\* The text written as a sequence of one-character strings.
Txt(t) == [i \in 1..Len(t) |-> Ord(t[i])]

\* Display of an unsigned integer: its decimal digits.
RECURSIVE NatText(_)
NatText(n) ==
    IF n < 10 THEN <<Ord("0") + n>>
    ELSE NatText(n \div 10) \o <<Ord("0") + (n % 10)>>

\* Display of a signed integer.
IntText(i) == IF i < 0 THEN Txt(<<"-">>) \o NatText(0 - i) ELSE NatText(i)

\* Display of a bool.
BoolText(b) ==
    IF b THEN Txt(<<"t", "r", "u", "e">>) ELSE Txt(<<"f", "a", "l", "s", "e">>)

\* A float is [cls, tenths]: a finite float is tenths/10.  Display of f64.
FloatText(f) ==
    CASE f.cls = "nan" -> Txt(<<"N", "a", "N">>)
      [] f.cls = "inf" -> Txt(<<"i", "n", "f">>)
      [] OTHER ->
           LET a == IF f.tenths < 0 THEN 0 - f.tenths ELSE f.tenths
               sign == IF f.tenths < 0 THEN Txt(<<"-">>) ELSE <<>>
           IN  sign \o NatText(a \div 10) \o
               (IF a % 10 = 0 THEN <<>> ELSE Txt(<<".">>) \o NatText(a % 10))

\* v % 1.0 == 0.0
IsIntegral(f) == f.cls = "finite" /\ f.tenths % 10 = 0

(***************************************************************************)
(* Engine state handed through the handlers: the buffer, the open          *)
(* aggregates and the Result of the handler ("Ok" or an Error kind).       *)
(***************************************************************************)
\* A push that begins the buffer anew when a line break is written.
Push_rewinding(s, text) ==
    [s EXCEPT !.dst = IF text = <<10>> THEN text ELSE @ \o text]

Push(s, text) == [s EXCEPT !.dst = @ \o text]

Fail(s, e) == [s EXCEPT !.err = e]

\* The `?` after a step: the rest runs only when the step returned Ok.
Then(s, Rest(_)) == IF s.err = "Ok" THEN Rest(s) ELSE s

\* State::Table of a table aggregate, State::Array of a sequence aggregate.
IsTable(s, d) == d > 0 /\ s.stack[d].kind = "Table"
IsArray(s, d) == d > 0 /\ s.stack[d].kind = "Array"

\* Serializer::emit_array
emit_array(s, first) ==
    IF first THEN Push(s, Txt(<<"[">>)) ELSE Push(s, Txt(<<",", " ">>))

\* array_type taking the type of every element for the type of the array.
array_type_overwriting(s, d, type_) ==
    IF ~IsArray(s, d) THEN s
    ELSE [s EXCEPT !.stack[d].type_ = type_]

\* array_type without the comparison with the resolved element type.
array_type_unchecked(s, d, type_) ==
    IF ~IsArray(s, d) THEN s
    ELSE IF s.stack[d].type_ # "None" THEN s
         ELSE [s EXCEPT !.stack[d].type_ = type_]

\* Serializer::array_type, on the Serializer whose state is stack[1..d]
array_type(s, d, type_) ==
    IF ~IsArray(s, d) THEN s
    ELSE IF s.stack[d].type_ # "None"
         THEN IF s.stack[d].type_ # type_ THEN Fail(s, "ArrayMixedType") ELSE s
         ELSE [s EXCEPT !.stack[d].type_ = type_]

\* {:04} of a number: its digits, zero-padded on the left to four.
RECURSIVE PadLeft(_, _)
PadLeft(text, width) ==
    IF Len(text) >= width THEN text ELSE PadLeft(Txt(<<"0">>) \o text, width)

\* EscapeChar taking every character below 0x20 for a control character.
EscapeChar_below_space(ch) ==
    CASE ch = 8  -> Txt(<<"\\", "b">>)
      [] ch = 9  -> Txt(<<"\\", "t">>)
      [] ch = 10 -> Txt(<<"\\", "n">>)
      [] ch = 12 -> Txt(<<"\\", "f">>)
      [] ch = 13 -> Txt(<<"\\", "r">>)
      [] ch = 34 -> Txt(<<"\\", "\"">>)
      [] ch = 92 -> Txt(<<"\\", "\\">>)
      [] OTHER -> IF ch < 32
                  THEN Txt(<<"\\", "u">>) \o PadLeft(NatText(ch), 4)
                  ELSE <<ch>>

\* One character of a string, as the match of emit_str writes it.
EscapeChar(ch) ==
    CASE ch = 8  -> Txt(<<"\\", "b">>)
      [] ch = 9  -> Txt(<<"\\", "t">>)
      [] ch = 10 -> Txt(<<"\\", "n">>)
      [] ch = 12 -> Txt(<<"\\", "f">>)
      [] ch = 13 -> Txt(<<"\\", "r">>)
      [] ch = 34 -> Txt(<<"\\", "\"">>)
      [] ch = 92 -> Txt(<<"\\", "\\">>)
      [] OTHER -> IF ch < 31
                  THEN Txt(<<"\\", "u">>) \o PadLeft(NatText(ch), 4)
                  ELSE <<ch>>

RECURSIVE EscapeChars(_)
EscapeChars(value) ==
    IF value = <<>> THEN <<>>
    ELSE EscapeChar(Head(value)) \o EscapeChars(Tail(value))

\* Serializer::emit_str
emit_str(s, value) == Push(s, Txt(<<"\"">>) \o EscapeChars(value) \o Txt(<<"\"">>))

\* The characters escape_key lets a bare key hold.
BareChar(c) ==
    \/ c \in Ord("a")..(Ord("a") + 25)
    \/ c \in (Ord("a") - 32)..(Ord("a") - 7)
    \/ c \in Ord("0")..Ord("9")
    \/ c \in {Ord("-"), Ord("_")}

\* Serializer::escape_key
escape_key(s, key) ==
    IF \A i \in 1..Len(key) : BareChar(key[i])
    THEN Push(s, key)
    ELSE emit_str(s, key)

\* A path written without the dots between its keys.
Dot_omitted(r) == r.s

\* The dot emit_key_part writes between the keys of a path.
Dot(r) == IF ~r.first THEN Push(r.s, Txt(<<".">>)) ELSE r.s

\* emit_key_part leaving the table_emitted flags as they are.
RECURSIVE emit_key_part_unmarked(_, _)
emit_key_part_unmarked(s, d) ==
    IF d = 0 THEN [s |-> s, first |-> TRUE]
    ELSE IF s.stack[d].kind = "Array" THEN emit_key_part_unmarked(s, d - 1)
    ELSE [s |-> escape_key(Dot(emit_key_part_unmarked(s, d - 1)),
                           s.stack[d].key),
          first |-> FALSE]

\* Serializer::emit_key_part on the chain stack[1..d]: [s, first]
RECURSIVE emit_key_part(_, _)
emit_key_part(s, d) ==
    IF d = 0 THEN [s |-> s, first |-> TRUE]
    ELSE IF s.stack[d].kind = "Array" THEN emit_key_part(s, d - 1)
    ELSE [s |-> escape_key(
                    Dot(emit_key_part(
                            [s EXCEPT !.stack[d].table_emitted = TRUE], d - 1)),
                    s.stack[d].key),
          first |-> FALSE]

\* emit_table_header with an empty line before every header.
emit_table_header_spaced(s, d) ==
    IF d = 0 THEN s
    ELSE Push(emit_key_part(
                  Push(s, Txt(IF s.stack[d].kind = "Array"
                              THEN <<"\n", "[", "[">> ELSE <<"\n", "[">>)),
                  d).s,
              Txt(IF s.stack[d].kind = "Array" THEN <<"]", "]", "\n">>
                                               ELSE <<"]", "\n">>))

\* emit_table_header without the empty line before the header.
emit_table_header_joined(s, d) ==
    IF d = 0 THEN s
    ELSE Push(emit_key_part(
                  Push(s, Txt(IF s.stack[d].kind = "Array" THEN <<"[", "[">>
                                                           ELSE <<"[">>)),
                  d).s,
              Txt(IF s.stack[d].kind = "Array" THEN <<"]", "]", "\n">>
                                               ELSE <<"]", "\n">>))

\* Serializer::emit_table_header on the chain stack[1..d]
emit_table_header(s, d) ==
    IF d = 0 THEN s
    ELSE LET array_of_tables == s.stack[d].kind = "Array"
             newline ==
                 \/ IsTable(s, d) /\ ~s.stack[d].first
                 \/ IsArray(s, d) /\ IsTable(s, d - 1) /\ ~s.stack[d - 1].first
             s1 == IF newline THEN Push(s, Txt(<<"\n">>)) ELSE s
             s2 == Push(s1, Txt(IF array_of_tables THEN <<"[", "[">> ELSE <<"[">>))
             s3 == emit_key_part(s2, d).s
         IN  Push(s3, Txt(IF array_of_tables THEN <<"]", "]", "\n">>
                                             ELSE <<"]", "\n">>))

\* Serializer::emit_key_ on the chain stack[1..d]
RECURSIVE emit_key_(_, _)
emit_key_(s, d) ==
    IF d = 0 THEN s
    ELSE IF s.stack[d].kind = "Array" THEN
        IF s.stack[d].type_ = "None" THEN Fail(s, "panic")
        ELSE Then(IF s.stack[d].first THEN emit_key_(s, d - 1) ELSE s,
                  LAMBDA t : emit_array(t, s.stack[d].first))
    ELSE
        IF s.stack[d].table_emitted THEN Fail(s, "ValueAfterTable")
        ELSE Push(escape_key(IF s.stack[d].first
                             THEN [emit_table_header(s, d - 1)
                                      EXCEPT !.stack[d].first = FALSE,
                                             !.stack[d].headers =
                                                 IF d > 1 THEN @ + 1 ELSE @]
                             ELSE s,
                             s.stack[d].key),
                  Txt(<<" ", "=", " ">>))

\* emit_key refusing a value at the root with UnsupportedType.
emit_key_rooted(s, d, type_) ==
    IF d = 0 THEN Fail(s, "UnsupportedType")
    ELSE Then(array_type(s, d, type_), LAMBDA t : emit_key_(t, d))

\* Serializer::emit_key
emit_key(s, d, type_) ==
    Then(array_type(s, d, type_), LAMBDA t : emit_key_(t, d))

\* The newline that ends a `key = value` line.
EndLine(s, d) == IF IsTable(s, d) THEN Push(s, Txt(<<"\n">>)) ELSE s

\* display writing the text before it looks at the result of emit_key.
display_eager(s, d, text, type_) ==
    IF emit_key(s, d, type_).err = "Ok"
    THEN EndLine(Push(emit_key(s, d, type_), text), d)
    ELSE Push(emit_key(s, d, type_), text)

\* Serializer::display
display(s, d, text, type_) ==
    Then(emit_key(s, d, type_), LAMBDA t : EndLine(Push(t, text), d))

\* The key of the field through which the datetime aggregate carries its text
\* (datetime::SERDE_STRUCT_FIELD_NAME), as a text of the model.
SERDE_STRUCT_FIELD_NAME == Txt(<<"_", "_", "t">>)

(***************************************************************************)
(* The open aggregates.  kind "Array" is a SerializeSeq, kind "Table" a    *)
(* SerializeTable::Table, kind "Datetime" a SerializeTable::Datetime.      *)
(* iface, expect, used, tags and subtable are the producer's side of the   *)
(* protocol: which trait the aggregate was opened through, whether a key   *)
(* has been given whose value is still to come, the keys given so far, the *)
(* type tags of the elements announced so far, whether a field whose value *)
(* is a table has been serialized, and the length of the buffer and the    *)
(* flags of the table when the key of its current field was given.         *)
(* headers counts the header lines written for the table by its fields.    *)
(***************************************************************************)
NewAggregate(kind, iface) ==
    [kind |-> kind, iface |-> iface, key |-> <<>>, expect |-> "key",
     used |-> {}, tags |-> {}, subtable |-> FALSE,
     mark |-> 0, was_first |-> TRUE, was_emitted |-> FALSE, headers |-> 0,
     first |-> TRUE, table_emitted |-> FALSE, type_ |-> "None"]

\* The producer begins a field of the table on top: what the buffer and the
\* flags of the table are before the field.
Begin(s) ==
    [s EXCEPT !.stack[Len(s.stack)].mark = Len(s.dst),
              !.stack[Len(s.stack)].was_first = s.stack[Len(s.stack)].first,
              !.stack[Len(s.stack)].was_emitted =
                  s.stack[Len(s.stack)].table_emitted]

Depth(s) == Len(s.stack)

Top(s) == s.stack[Len(s.stack)]

Pop(s) == [s EXCEPT !.stack = SubSeq(@, 1, Len(@) - 1)]

\* An aggregate opened with the flags of the aggregate it is opened in.
Open_inheriting(s, kind, iface) ==
    [s EXCEPT !.stack =
        Append(@, IF s.stack = <<>> THEN NewAggregate(kind, iface)
                  ELSE [NewAggregate(kind, iface)
                           EXCEPT !.first = Top(s).first,
                                  !.table_emitted = Top(s).table_emitted])]

Open(s, kind, iface) ==
    [s EXCEPT !.stack = Append(@, NewAggregate(kind, iface))]

(***************************************************************************)
(* impl ser::Serializer for &mut Serializer: the state of the Serializer   *)
(* is the whole chain of open aggregates.                                  *)
(***************************************************************************)
serialize_bool(s, v) == display(s, Depth(s), BoolText(v), "bool")

serialize_i64(s, v) == display(s, Depth(s), IntText(v), "integer")

serialize_f64(s, v) ==
    Then(emit_key(s, Depth(s), "float"),
         LAMBDA t : EndLine(Push(Push(t, FloatText(v)),
                                 IF IsIntegral(v) THEN Txt(<<".", "0">>)
                                                  ELSE <<>>),
                            Depth(s)))

serialize_str(s, value) ==
    Then(emit_key(s, Depth(s), "string"),
         LAMBDA t : EndLine(emit_str(t, value), Depth(s)))

serialize_none(s) == Fail(s, "UnsupportedNone")

\* serialize_bytes, serialize_unit, serialize_unit_struct, the variants,
\* serialize_tuple, serialize_tuple_struct
serialize_unsupported(s) == Fail(s, "UnsupportedType")

\* serialize_seq accepting a sequence only as a value inside an aggregate.
serialize_seq_nested(s) ==
    IF Depth(s) = 0 THEN Fail(s, "UnsupportedType")
    ELSE Then(array_type(s, Depth(s), "array"),
              LAMBDA t : Open(t, "Array", "seq"))

serialize_seq(s) ==
    Then(array_type(s, Depth(s), "array"),
         LAMBDA t : Open(t, "Array", "seq"))

serialize_map(s) ==
    Then(array_type(s, Depth(s), "table"),
         LAMBDA t : Open(t, "Table", "map"))

\* serialize_struct; datetime says whether name is SERDE_STRUCT_NAME
serialize_struct(s, datetime) ==
    IF datetime
    THEN Then(array_type(s, Depth(s), "datetime"),
              LAMBDA t : Open(t, "Datetime", "struct"))
    ELSE Then(array_type(s, Depth(s), "table"),
              LAMBDA t : Open(t, "Table", "struct"))

\* The value inside Some(x) or inside a newtype struct: c.cls is the
\* operation that announces it.
Inner(c) == [op |-> c.cls, n |-> c.n, cls |-> "", text |-> c.text]

\* value.serialize(serializer) for a value the producer announces as c
RECURSIVE serialize(_, _)

\* serialize_some refusing every Some(x).
serialize_some_refused(s, c) == Fail(s, "UnsupportedType")

serialize_some(s, c) == serialize(s, Inner(c))

serialize_newtype_struct(s, c) == serialize(s, Inner(c))

serialize(s, c) ==
    CASE c.op = "bool"        -> serialize_bool(s, c.n = 1)
      [] c.op = "integer"     -> serialize_i64(s, c.n)
      [] c.op = "float"       ->
           serialize_f64(s, [cls |-> c.cls, tenths |-> c.n])
      [] c.op = "str"         -> serialize_str(s, c.text)
      [] c.op = "none"        -> serialize_none(s)
      [] c.op = "unsupported" -> serialize_unsupported(s)
      [] c.op = "seq"         -> serialize_seq(s)
      [] c.op = "map"         -> serialize_map(s)
      [] c.op = "struct"      -> serialize_struct(s, c.cls = "datetime")
      [] c.op = "some"        -> serialize_some(s, c)
      [] c.op = "newtype_struct" -> serialize_newtype_struct(s, c)

(***************************************************************************)
(* impl ser::Serializer for DateStrEmitter: the Serializer it wraps is the *)
(* one the datetime aggregate was opened on, below the aggregate.          *)
(***************************************************************************)
DateStrEmitter(s, c) ==
    CASE c.op = "str" -> display(s, Depth(s) - 1, c.text, "datetime")
      [] c.op = "unsupported" /\ c.cls = "unit" -> Fail(s, "KeyNotString")
      [] c.op = "some" -> Fail(s, "KeyNotString")
      [] OTHER -> Fail(s, "DateInvalid")

(***************************************************************************)
(* The handlers a value goes through: to_string at the root,               *)
(* SerializeSeq::serialize_element, SerializeMap::serialize_value and      *)
(* SerializeStruct::serialize_field.  Enter is the part before the value   *)
(* is serialized and its serialization; Return is the part after it, run   *)
(* when the value's serialization has returned (for an aggregate, when its *)
(* end has returned).  An Err goes up through the `?` of the handlers and  *)
(* of the producers, which drop the aggregates it leaves.                  *)
(***************************************************************************)
RECURSIVE Return(_)
Return(s) ==
    IF Depth(s) = 0 THEN s
    ELSE CASE Top(s).kind = "Array" ->
                IF s.err = "Ok"
                THEN [s EXCEPT !.stack[Depth(s)].first = FALSE]
                ELSE Return(Pop(s))
           [] Top(s).kind = "Table" ->
                IF s.err = "Ok"
                THEN [s EXCEPT !.stack[Depth(s)].first = FALSE,
                               !.stack[Depth(s)].expect = "key"]
                ELSE IF s.err = "UnsupportedNone"
                THEN [s EXCEPT !.err = "Ok",
                               !.stack[Depth(s)].expect = "key"]
                ELSE Return(Pop(s))
           [] Top(s).kind = "Datetime" ->
                IF s.err = "Ok"
                THEN [s EXCEPT !.stack[Depth(s)].expect = "key"]
                ELSE Return(Pop(s))

Enter(s, c) ==
    IF Depth(s) > 0 /\ Top(s).kind = "Datetime"
    THEN IF Top(s).iface = "map" THEN Fail(s, "panic")
         ELSE IF Top(s).key = SERDE_STRUCT_FIELD_NAME
         THEN DateStrEmitter(s, c)
         ELSE Fail(s, "DateInvalid")
    ELSE serialize(s, c)

\* The value c handed to the engine: where the engine is when it next
\* returns to the producer.
Resume(s, depth) ==
    IF s.err = "Ok" /\ Depth(s) > depth THEN s ELSE Return(s)

\* The type tag under which the engine resolves the value announced as c.
TagOf(c) ==
    CASE c.op = "bool"    -> "bool"
      [] c.op = "integer" -> "integer"
      [] c.op = "float"   -> "float"
      [] c.op = "str"     -> "string"
      [] c.op = "seq"     -> "array"
      [] c.op = "map"     -> "table"
      [] c.op = "struct"  -> c.cls
      [] c.op \in {"some", "newtype_struct"} ->
           CASE c.cls = "integer" -> "integer"
             [] c.cls = "str"     -> "string"
             [] c.cls = "seq"     -> "array"
             [] OTHER             -> "None"
      [] OTHER            -> "None"

\* The producer has announced c as the next element of the open sequence.
Element(s, c) ==
    IF Depth(s) > 0 /\ Top(s).kind = "Array" /\ TagOf(c) # "None"
    THEN [s EXCEPT !.stack[Depth(s)].tags = @ \cup {TagOf(c)}]
    ELSE s

\* The producer has ended a table that was the value of a field of a table.
Field(s) ==
    IF Depth(s) > 1 /\ Top(s).kind = "Table" /\ s.stack[Depth(s) - 1].kind = "Table"
    THEN [s EXCEPT !.stack[Depth(s) - 1].subtable = TRUE]
    ELSE s

Value(s, c) == Resume(Enter(Element(s, c), c), Depth(s))

\* SerializeSeq::end resolving the type of a sequence without elements as
\* if it had held one: only the closing bracket is written.
SerializeSeq_end_closing(s) ==
    Return(Pop(
        CASE Top(s).type_ = "table" -> s
          [] OTHER -> EndLine(Push(s, Txt(<<"]">>)), Depth(s) - 1)))

\* SerializeSeq::end, then the handler the sequence was a value of
SerializeSeq_end(s) ==
    Return(Pop(
        CASE Top(s).type_ = "table" -> s
          [] Top(s).type_ = "None" ->
               IF ~Top(s).first THEN Fail(s, "panic")
               ELSE Then(emit_key(s, Depth(s) - 1, "array"),
                         LAMBDA t : EndLine(Push(t, Txt(<<"[", "]">>)),
                                            Depth(s) - 1))
          [] OTHER -> EndLine(Push(s, Txt(<<"]">>)), Depth(s) - 1)))

\* A truncate that leaves the String as it is.
truncate_kept(text, new_len) == text

\* String::truncate
truncate(text, new_len) ==
    IF new_len < Len(text) THEN SubSeq(text, 1, new_len) ELSE text

\* serialize_key taking any string for a key.
serialize_key_unchecked(s, c) ==
    IF c.op # "key" THEN Return(Pop(Fail(s, "KeyNotString")))
    ELSE Begin([s EXCEPT !.stack[Depth(s)].key = c.text,
                         !.stack[Depth(s)].expect = "value"])

\* SerializeMap::serialize_key through StringExtractor: c is the key the
\* producer announces, a string (op "key") or anything else (op "key_other")
serialize_key(s, c) ==
    IF Top(s).kind = "Datetime" THEN Return(Pop(Fail(s, "panic")))
    ELSE IF c.op # "key" THEN Return(Pop(Fail(s, "KeyNotString")))
    ELSE IF \E i \in 1..Len(c.text) : c.text[i] = Ord("\n")
    THEN Return(Pop(Fail(s, "KeyNewline")))
    ELSE IF Len(truncate(Top(s).key, 0)) # 0
    THEN Return(Pop(Fail(s, "panic")))
    ELSE Begin([s EXCEPT !.stack[Depth(s)].key =
                             truncate(Top(s).key, 0) \o c.text,
                         !.stack[Depth(s)].expect = "value"])

\* SerializeMap::end, then the handler the table was a value of
SerializeMap_end(s) ==
    IF Top(s).kind = "Datetime" THEN Return(Pop(Fail(s, "panic")))
    ELSE Return(Pop(Field(IF Top(s).first
                          THEN emit_table_header(s, Depth(s) - 1)
                          ELSE s)))

\* SerializeStruct::end, then the handler the struct was a value of
SerializeStruct_end(s) == Return(Pop(Field(s)))

(***************************************************************************)
(* Value (src/value.rs): [tag, val].  The val of an array is the sequence  *)
(* of its elements; the val of a table is the sequence of its entries      *)
(* [key, val] in the iteration order of the BTreeMap, ascending by key.    *)
(***************************************************************************)
Variant(tag, n, cls, text, items, entries) ==
    [tag |-> tag, n |-> n, cls |-> cls, text |-> text, items |-> items,
     entries |-> entries]

String(t)   == Variant("string", 0, "", t, <<>>, <<>>)
Integer(i)  == Variant("integer", i, "", <<>>, <<>>, <<>>)
Float(f)    == Variant("float", f.tenths, f.cls, <<>>, <<>>, <<>>)
Boolean(b)  == Variant("boolean", IF b THEN 1 ELSE 0, "", <<>>, <<>>, <<>>)
Array(a)    == Variant("array", 0, "", <<>>, a, <<>>)
Table(t)    == Variant("table", 0, "", <<>>, <<>>, t)

\* is_array holding only for the arrays whose elements are not tables.
is_array_inline(v) ==
    /\ v.tag = "array"
    /\ \A i \in 1..Len(v.items) : v.items[i].tag # "table"

is_array(v) == v.tag = "array"
is_table(v) == v.tag = "table"

\* A producer call: the operation and its argument, a number (an integer,
\* a bool as 0 or 1, the tenths of a float, a length), a text (a string, a
\* key) or a name (the class of a float, the name of a struct, the kind of
\* an unsupported value).
Call(op, n, cls, text) == [op |-> op, n |-> n, cls |-> cls, text |-> text]

RECURSIVE ValueCalls(_)
RECURSIVE ElementCalls(_)
RECURSIVE EntryCalls(_, _)

\* impl ser::Serialize for Value: the calls it makes, in order
ValueCalls(v) ==
    CASE v.tag = "string"  -> <<Call("str", 0, "", v.text)>>
      [] v.tag = "integer" -> <<Call("integer", v.n, "", <<>>)>>
      [] v.tag = "float"   -> <<Call("float", v.n, v.cls, <<>>)>>
      [] v.tag = "boolean" -> <<Call("bool", v.n, "", <<>>)>>
      [] v.tag = "array"   ->
           <<Call("seq", Len(v.items), "", <<>>)>> \o ElementCalls(v.items)
               \o <<Call("seq_end", 0, "", <<>>)>>
      [] v.tag = "table"   ->
           <<Call("map", Len(v.entries), "", <<>>)>>
               \o EntryCalls(v.entries, 1) \o EntryCalls(v.entries, 2)
               \o EntryCalls(v.entries, 3) \o <<Call("map_end", 0, "", <<>>)>>

\* Vec<Value>::serialize: one serialize_element per element
ElementCalls(a) ==
    IF a = <<>> THEN <<>> ELSE ValueCalls(Head(a)) \o ElementCalls(Tail(a))

\* One of the three loops over the entries of a table: serialize_key and
\* serialize_value for the entries the loop's test selects
EntryCalls(t, pass) ==
    IF t = <<>> THEN <<>>
    ELSE LET v == Head(t).val
             selected ==
                 CASE pass = 1 -> ~is_array(v) /\ ~is_table(v)
                   [] pass = 2 -> is_array(v)
                   [] pass = 3 -> is_table(v)
         IN  (IF selected
              THEN <<Call("key", 0, "", Head(t).key)>> \o ValueCalls(v)
              ELSE <<>>) \o EntryCalls(Tail(t), pass)

(***************************************************************************)
(* The Values given to to_string: every Value of at most MaxNodes nodes    *)
(* over two scalars and three keys, and the Values the specification       *)
(* names.                                                                  *)
(***************************************************************************)
\* Keys of the tables, in ascending byte order.
ValueKeys == <<Txt(<<"a">>), Txt(<<"b">>), Txt(<<"n", "\n">>)>>

ValueScalars == {Integer(1), String(Txt(<<"a">>))}

RECURSIVE ValuesOfSize(_)
RECURSIVE ListsOfSize(_)
RECURSIVE EntriesOfSize(_, _)

ValuesOfSize(n) ==
    IF n = 1 THEN ValueScalars \cup {Array(<<>>), Table(<<>>)}
    ELSE {Array(a) : a \in ListsOfSize(n - 1)}
            \cup {Table(t) : t \in EntriesOfSize(n - 1, 1)}

ListsOfSize(m) ==
    IF m = 0 THEN {<<>>}
    ELSE UNION {{<<v>> \o a : v \in ValuesOfSize(i), a \in ListsOfSize(m - i)}
                    : i \in 1..m}

EntriesOfSize(m, k) ==
    IF m = 0 THEN {<<>>}
    ELSE IF k > Len(ValueKeys) THEN {}
    ELSE EntriesOfSize(m, k + 1) \cup
         UNION {{<<[key |-> ValueKeys[k], val |-> v]>> \o t :
                     v \in ValuesOfSize(i), t \in EntriesOfSize(m - i, k + 1)}
                    : i \in 1..m}

\* Table{"a": Integer(1), "b": Table{"c": Integer(2)}}
ScenarioNested ==
    Table(<<[key |-> Txt(<<"a">>), val |-> Integer(1)],
            [key |-> Txt(<<"b">>),
             val |-> Table(<<[key |-> Txt(<<"c">>), val |-> Integer(2)]>>)]>>)

\* Table{"x": Array[Table{"y": Integer(1)}]}
ScenarioArrayOfTables ==
    Table(<<[key |-> Txt(<<"x">>),
             val |-> Array(<<Table(<<[key |-> Txt(<<"y">>),
                                     val |-> Integer(1)]>>)>>)]>>)

\* Table{"n": Float(4.0), "t": Boolean(true)}
ScenarioFloat ==
    Table(<<[key |-> Txt(<<"n">>),
             val |-> Float([cls |-> "finite", tenths |-> 40])],
            [key |-> Txt(<<"t">>), val |-> Boolean(TRUE)]>>)

Scenarios == {ScenarioNested, ScenarioArrayOfTables, ScenarioFloat}

ValueInputs == UNION {ValuesOfSize(n) : n \in 1..MaxNodes} \cup Scenarios

(***************************************************************************)
(* The Values given to to_string to see how texts and floats are written:  *)
(* a string, a table with one key, a float.                                *)
(***************************************************************************)
\* The control characters with a two-character escape, control characters
\* without one on both sides of 0x1F, the space, the quote, the backslash,
\* the ends of the ranges of bare keys, and a character outside ASCII.
Chars ==
    {8, 9, 10, 11, 12, 13, 30, 31, 32, 34, 45, 48, 57, 65, 90, 92, 95, 97, 122,
     233}

RECURSIVE TextsOfLen(_)
TextsOfLen(n) ==
    IF n = 0 THEN {<<>>}
    ELSE {<<c>> \o t : c \in Chars, t \in TextsOfLen(n - 1)}

Texts == UNION {TextsOfLen(n) : n \in 0..MaxLen}

Floats ==
    {[cls |-> "finite", tenths |-> n] : n \in (0 - MaxTenths)..MaxTenths}
        \cup {[cls |-> "nan", tenths |-> 0], [cls |-> "inf", tenths |-> 0]}

TextInputs ==
    {String(t) : t \in Texts}
        \cup {Table(<<[key |-> t, val |-> Integer(1)]>>) : t \in Texts}
        \cup {Float(f) : f \in Floats}

NoValue == Variant("none", 0, "", <<>>, <<>>, <<>>)

\* No to_string call has returned yet.
NoOutcome == [result |-> "none", text |-> <<>>]

(***************************************************************************)
(* The calls of a generic producer.                                        *)
(***************************************************************************)
GenericKeys == {Txt(<<"a">>), Txt(<<"b">>), Txt(<<"n", "\n">>)}

\* The keys of the fields of a struct: a bare key, a key that is written
\* quoted, and the key of the field of a datetime.
FieldKeys == {Txt(<<"a">>), Txt(<<"n", "\n">>), SERDE_STRUCT_FIELD_NAME}

GenericCalls ==
    {Call("bool", 1, "", <<>>), Call("integer", 1, "", <<>>),
     Call("float", 40, "finite", <<>>),
     Call("str", 0, "", Txt(<<"a">>)), Call("none", 0, "", <<>>),
     Call("unsupported", 0, "unit", <<>>),
     Call("unsupported", 0, "bytes", <<>>),
     Call("seq", 0, "", <<>>), Call("map", 0, "", <<>>),
     Call("struct", 0, "table", <<>>), Call("struct", 0, "datetime", <<>>),
     Call("seq_end", 0, "", <<>>), Call("map_end", 0, "", <<>>),
     Call("struct_end", 0, "", <<>>), Call("key_other", 0, "", <<>>)}
        \cup {Call("key", 0, "", k) : k \in GenericKeys}

Generic == input = NoValue

\* The calls with operation op the producer may make next.
Offered(op) ==
    IF result # "none" THEN {}
    ELSE IF Generic
    THEN IF calls < MaxCalls THEN {c \in GenericCalls : c.op = op} ELSE {}
    ELSE IF todo # <<>> /\ Head(todo).op = op THEN {Head(todo)} ELSE {}

Eng == [dst |-> dst, stack |-> stack, err |-> "Ok"]

\* SerializeStruct::serialize_field: the key it is given
serialize_field(s, key) ==
    Begin([s EXCEPT !.stack[Depth(s)].key = key,
                    !.stack[Depth(s)].used = @ \cup {key},
                    !.stack[Depth(s)].expect = "value"])

\* The engine where the producer can give it a value: at the root, in a
\* sequence, after serialize_key, or in a struct (with the key of a field).
AtValue ==
    IF stack = <<>> THEN {Eng}
    ELSE CASE Top(Eng).iface = "seq" -> {Eng}
           [] Top(Eng).iface = "map" ->
                IF Top(Eng).expect = "value" THEN {Eng} ELSE {}
           [] Top(Eng).iface = "struct" ->
                {serialize_field(Eng, k) : k \in FieldKeys \ Top(Eng).used}

CanOpen == IF Generic THEN Len(stack) < MaxDepth ELSE TRUE

\* A to_string that does not return when the outermost value is complete.
Commit_unreturned(r) ==
    /\ dst' = r.dst
    /\ stack' = r.stack
    /\ result' = "none"
    /\ calls' = calls + 1
    /\ todo' = IF Generic THEN todo ELSE Tail(todo)
    /\ UNCHANGED <<input, built, earlier>>

Commit(r) ==
    /\ dst' = r.dst
    /\ stack' = r.stack
    /\ result' = IF r.stack = <<>> THEN r.err ELSE "none"
    /\ calls' = calls + 1
    /\ todo' = IF Generic THEN todo ELSE Tail(todo)
    /\ UNCHANGED <<input, built, earlier>>

SerializeBool == \E c \in Offered("bool") : \E s \in AtValue : Commit(Value(s, c))

SerializeI64 == \E c \in Offered("integer") : \E s \in AtValue : Commit(Value(s, c))

SerializeF64 == \E c \in Offered("float") : \E s \in AtValue : Commit(Value(s, c))

SerializeStr == \E c \in Offered("str") : \E s \in AtValue : Commit(Value(s, c))

SerializeNone == \E c \in Offered("none") : \E s \in AtValue : Commit(Value(s, c))

SerializeUnsupported ==
    \E c \in Offered("unsupported") : \E s \in AtValue : Commit(Value(s, c))

SerializeSeq ==
    /\ CanOpen
    /\ \E c \in Offered("seq") : \E s \in AtValue : Commit(Value(s, c))

SerializeMap ==
    /\ CanOpen
    /\ \E c \in Offered("map") : \E s \in AtValue : Commit(Value(s, c))

SerializeStruct ==
    /\ CanOpen
    /\ \E c \in Offered("struct") : \E s \in AtValue : Commit(Value(s, c))

SerializeKey ==
    /\ stack # <<>>
    /\ Top(Eng).iface = "map" /\ Top(Eng).expect = "key"
    /\ \E c \in Offered("key") \cup Offered("key_other") :
          /\ c.op = "key" => c.text \notin Top(Eng).used
          /\ Commit(serialize_key(
                 [Eng EXCEPT !.stack[Len(stack)].used =
                                 IF c.op = "key" THEN @ \cup {c.text} ELSE @], c))

SeqEnd ==
    /\ stack # <<>>
    /\ Top(Eng).iface = "seq"
    /\ \E c \in Offered("seq_end") : Commit(SerializeSeq_end(Eng))

MapEnd ==
    /\ stack # <<>>
    /\ Top(Eng).iface = "map" /\ Top(Eng).expect = "key"
    /\ \E c \in Offered("map_end") : Commit(SerializeMap_end(Eng))

StructEnd ==
    /\ stack # <<>>
    /\ Top(Eng).iface = "struct"
    /\ \E c \in Offered("struct_end") : Commit(SerializeStruct_end(Eng))

(***************************************************************************)
(* The shapes the format has no place for, and the transparent wrappers.   *)
(***************************************************************************)
\* serialize_bytes, serialize_unit, serialize_unit_struct, serialize_tuple,
\* serialize_tuple_struct and the four variant forms; serialize_some and
\* serialize_newtype_struct around an integer, a string, a sequence.
ShapeCalls ==
    {Call("unsupported", 0, cls, <<>>) :
        cls \in {"bytes", "unit", "unit_struct", "tuple", "tuple_struct",
                 "unit_variant", "newtype_variant", "tuple_variant",
                 "struct_variant"}}
        \cup {Call(op, 1, "integer", <<>>) : op \in {"some", "newtype_struct"}}
        \cup {Call(op, 0, "str", Txt(<<"a">>)) : op \in {"some", "newtype_struct"}}
        \cup {Call(op, 0, "seq", <<>>) : op \in {"some", "newtype_struct"}}

SerializeShape ==
    /\ result = "none" /\ Generic /\ calls < MaxCalls
    /\ \E c \in ShapeCalls : \E s \in AtValue :
          /\ c.cls = "seq" => CanOpen
          /\ Commit(Value(s, c))

(***************************************************************************)
(* The consumer behind Value::try_from (src/value.rs): it builds a Value   *)
(* from the calls of a producer.  Its open aggregates are SerializeVec     *)
(* (kind "Vec") and SerializeMap (kind "Map"); b is [stack, err, ret], ret *)
(* being the Value of an Ok result.                                        *)
(***************************************************************************)
\* Ord of String: the order of the keys of a BTreeMap<String, Value>.
RECURSIVE StringLess(_, _)
StringLess(a, b) ==
    IF b = <<>> THEN FALSE
    ELSE IF a = <<>> THEN TRUE
    ELSE IF Head(a) = Head(b) THEN StringLess(Tail(a), Tail(b))
    ELSE Head(a) < Head(b)

\* BTreeMap::insert, on the entries in ascending key order: the value of a
\* key that is present is replaced.
RECURSIVE BTreeInsert(_, _, _)
BTreeInsert(map, key, value) ==
    IF map = <<>> THEN <<[key |-> key, val |-> value]>>
    ELSE IF Head(map).key = key
    THEN <<[key |-> key, val |-> value]>> \o Tail(map)
    ELSE IF StringLess(key, Head(map).key)
    THEN <<[key |-> key, val |-> value]>> \o map
    ELSE <<Head(map)>> \o BTreeInsert(Tail(map), key, value)

\* SerializeVec { vec } and SerializeMap { map, next_key }
NewBuilder(kind) ==
    [kind |-> kind, vec |-> <<>>, map |-> <<>>, next_key |-> <<>>,
     expect |-> IF kind = "Map" THEN "key" ELSE "value"]

Ok(b, value) == [b EXCEPT !.ret = value]

\* impl ser::Serializer for Serializer (value.rs), for the value announced
\* as c
Value_serialize(b, c) ==
    CASE c.op = "bool"    -> Ok(b, Boolean(c.n = 1))
      [] c.op = "integer" -> Ok(b, Integer(c.n))
      [] c.op = "float"   -> Ok(b, Float([cls |-> c.cls, tenths |-> c.n]))
      [] c.op = "str"     -> Ok(b, String(c.text))
      [] c.op = "char"    -> Ok(b, String(c.text))
      [] c.op = "none"    -> Fail(b, "UnsupportedNone")
      [] c.op = "unsupported" ->
           IF c.cls = "bytes" THEN Ok(b, Array(<<>>))
           ELSE Fail(b, "UnsupportedType")
      [] c.op = "seq"     -> [b EXCEPT !.stack = Append(@, NewBuilder("Vec"))]
      [] c.op \in {"map", "struct"} ->
           [b EXCEPT !.stack = Append(@, NewBuilder("Map"))]

\* Value::try_from has returned b.err (and b.ret) to the handler that called
\* it: SerializeVec::serialize_element, SerializeMap::serialize_value, or
\* the caller of the outermost Value::try_from.
RECURSIVE Value_return(_)
Value_return(b) ==
    IF b.stack = <<>> THEN b
    ELSE CASE Top(b).kind = "Vec" ->
                IF b.err = "Ok"
                THEN [b EXCEPT !.stack[Depth(b)].vec = Append(@, b.ret),
                               !.ret = NoValue]
                ELSE Value_return(Pop(b))
           [] Top(b).kind = "Map" ->
                IF b.err = "Ok"
                THEN [b EXCEPT !.stack[Depth(b)].map =
                                   BTreeInsert(@, Top(b).next_key, b.ret),
                               !.stack[Depth(b)].next_key = <<>>,
                               !.stack[Depth(b)].expect = "key",
                               !.ret = NoValue]
                ELSE IF b.err = "UnsupportedNone"
                THEN [b EXCEPT !.err = "Ok",
                               !.stack[Depth(b)].next_key = <<>>,
                               !.stack[Depth(b)].expect = "key"]
                ELSE Value_return(Pop(b))

\* The producer hands the value c to the consumer.
Value_try_from(b, c) ==
    IF Value_serialize(b, c).err = "Ok" /\ Depth(Value_serialize(b, c)) > Depth(b)
    THEN Value_serialize(b, c)
    ELSE Value_return(Value_serialize(b, c))

\* Value::try_from(key) in SerializeMap::serialize_key: what the key the
\* producer announces as c is built into.  A key that is a sequence is taken
\* whole, as the Array it is built into.
Value_key(b, c) ==
    CASE c.op = "key" -> Ok(b, String(c.text))
      [] c.cls \in {"char", "some"} -> Ok(b, String(c.text))
      [] c.cls = "integer" -> Ok(b, Integer(c.n))
      [] c.cls = "seq"     -> Ok(b, Array(<<>>))
      [] c.cls = "none"    -> Fail(b, "UnsupportedNone")
      [] OTHER             -> Fail(b, "UnsupportedType")

\* SerializeMap::serialize_key (value.rs); an Err leaves the map and goes to
\* the handler the map was a value of
Value_serialize_key(b, c) ==
    IF Value_key(b, c).err # "Ok"
    THEN Value_return(Pop(Value_key(b, c)))
    ELSE IF Value_key(b, c).ret.tag # "string"
    THEN Value_return(Pop(Fail(b, "KeyNotString")))
    ELSE [b EXCEPT !.stack[Depth(b)].next_key = Value_key(b, c).ret.text,
                   !.stack[Depth(b)].expect = "value"]

\* An end of a sequence that makes the check of the text engine: elements of
\* one type.
Value_end_checked(b) ==
    IF /\ Top(b).kind = "Vec"
       /\ \E i, j \in 1..Len(Top(b).vec) : Top(b).vec[i].tag # Top(b).vec[j].tag
    THEN Value_return(Pop(Fail(b, "ArrayMixedType")))
    ELSE Value_return(Pop(Ok(b, IF Top(b).kind = "Vec" THEN Array(Top(b).vec)
                                                       ELSE Table(Top(b).map))))

\* SerializeVec::end and SerializeMap::end (value.rs)
Value_end(b) ==
    Value_return(Pop(Ok(b, IF Top(b).kind = "Vec" THEN Array(Top(b).vec)
                                                  ELSE Table(Top(b).map))))

\* The calls of a producer into this consumer: values, keys announced as
\* strings, keys announced as something else, ends.
BuildKeys == {Txt(<<"a">>), Txt(<<"b">>)}

BuildCalls ==
    {Call("integer", 1, "", <<>>), Call("integer", 2, "", <<>>),
     Call("none", 0, "", <<>>), Call("unsupported", 0, "unit", <<>>),
     Call("seq", 0, "", <<>>), Call("map", 0, "", <<>>),
     Call("end", 0, "", <<>>)}
        \cup {Call("key", 0, "", k) : k \in BuildKeys}
        \cup {Call("key_other", 0, "char", Txt(<<"a">>)),
              Call("key_other", 0, "some", Txt(<<"a">>)),
              Call("key_other", 1, "integer", <<>>),
              Call("key_other", 0, "seq", <<>>),
              Call("key_other", 0, "none", <<>>),
              Call("key_other", 0, "unit", <<>>)}

Bld == [stack |-> stack, err |-> "Ok", ret |-> NoValue]

\* The handler of this consumer a call of the Value producer goes to.
BuildOp(c) == IF c.op \in {"seq_end", "map_end"} THEN "end" ELSE c.op

BuildOffered(ops) ==
    IF result # "none" THEN {}
    ELSE IF Generic
    THEN IF calls < MaxCalls THEN {c \in BuildCalls : c.op \in ops} ELSE {}
    ELSE IF todo # <<>> /\ BuildOp(Head(todo)) \in ops THEN {Head(todo)} ELSE {}

\* The consumer is where the producer can give it a value.
BuildAtValue == IF stack = <<>> THEN TRUE ELSE Top(Bld).expect = "value"

CommitBuild(b) ==
    /\ stack' = b.stack
    /\ result' = IF b.stack = <<>> THEN b.err ELSE "none"
    /\ built' = IF b.stack = <<>> /\ b.err = "Ok" THEN b.ret ELSE NoValue
    /\ calls' = calls + 1
    /\ todo' = IF Generic THEN todo ELSE Tail(todo)
    /\ UNCHANGED <<dst, input, earlier>>

BuildScalar ==
    /\ BuildAtValue
    /\ \E c \in BuildOffered({"bool", "integer", "float", "str", "none",
                             "unsupported"}) :
          CommitBuild(Value_try_from(Bld, c))

BuildAggregate ==
    /\ BuildAtValue
    /\ CanOpen
    /\ \E c \in BuildOffered({"seq", "map"}) :
          CommitBuild(Value_try_from(Bld, c))

BuildKey ==
    /\ stack # <<>>
    /\ Top(Bld).kind = "Map" /\ Top(Bld).expect = "key"
    /\ \E c \in BuildOffered({"key", "key_other"}) :
          CommitBuild(Value_serialize_key(Bld, c))

BuildEnd ==
    /\ stack # <<>>
    /\ IF Top(Bld).kind = "Vec" THEN TRUE ELSE Top(Bld).expect = "key"
    /\ \E c \in BuildOffered({"end"}) : CommitBuild(Value_end(Bld))

(***************************************************************************)
(* The integer handlers of the Value-building consumer.  An integer is the *)
(* bit pattern the producer hands over, in the width of its type.  The     *)
(* widths are scaled: 64 bits are IntBits bits, and 32, 16 and 8 bits are  *)
(* one, two and three bits less.                                           *)
(***************************************************************************)
IntTypes == {"i8", "i16", "i32", "i64", "u8", "u16", "u32", "u64"}

Signed(ty) == ty \in {"i8", "i16", "i32", "i64"}

Bits(ty) ==
    CASE ty \in {"i8", "u8"}   -> IntBits - 3
      [] ty \in {"i16", "u16"} -> IntBits - 2
      [] ty \in {"i32", "u32"} -> IntBits - 1
      [] OTHER                 -> IntBits

\* The number a bit pattern of the type ty stands for (two's complement).
NumberOf(ty, bits) ==
    IF Signed(ty) /\ bits >= 2 ^ (Bits(ty) - 1) THEN bits - 2 ^ Bits(ty)
    ELSE bits

\* i64::max_value() as u64
i64_max == 2 ^ (IntBits - 1) - 1

\* value.into() from a narrower type to i64: the sign bit of a signed type
\* fills the upper bits, an unsigned type is filled with zeros.
into_i64(ty, bits) ==
    IF Signed(ty) /\ bits >= 2 ^ (Bits(ty) - 1)
    THEN bits + (2 ^ IntBits - 2 ^ Bits(ty))
    ELSE bits

\* Serializer::serialize_i64 (value.rs)
Value_serialize_i64(b, bits) == Ok(b, Integer(NumberOf("i64", bits)))

\* A serialize_u64 that casts without looking at the value.
Value_serialize_u64_wrapping(b, bits) == Value_serialize_i64(b, bits)

\* Serializer::serialize_u64 (value.rs): `value as i64` keeps the bits
Value_serialize_u64(b, bits) ==
    IF bits <= i64_max THEN Value_serialize_i64(b, bits)
    ELSE Fail(b, "Custom")

\* serialize_i8 .. serialize_u64 (value.rs), for the integer announced as c
Value_serialize_integer(b, c) ==
    CASE c.cls = "u64" -> Value_serialize_u64(b, c.n)
      [] c.cls = "i64" -> Value_serialize_i64(b, c.n)
      [] OTHER         -> Value_serialize_i64(b, into_i64(c.cls, c.n))

\* The integers a producer can hand over: every bit pattern of every type.
IntegerCalls ==
    UNION {{Call("int", bits, ty, <<>>) : bits \in 0..(2 ^ Bits(ty) - 1)}
               : ty \in IntTypes}

\* Value::try_from on an integer
BuildInteger ==
    /\ result = "none" /\ stack = <<>>
    /\ todo # <<>> /\ Head(todo).op = "int"
    /\ CommitBuild(Value_return(Value_serialize_integer(Bld, Head(todo))))

(***************************************************************************)
(* Value's Deserialize visitor (src/value.rs): it builds a Table from the  *)
(* entries [key, val] a MapVisitor hands over, in their order.             *)
(***************************************************************************)
\* BTreeMap::contains_key
contains_key(map, key) == \E i \in 1..Len(map) : map[i].key = key

\* The loop of ValueVisitor::visit_map over the entries after the first
RECURSIVE visit_key(_, _)
visit_key(map, entries) ==
    IF entries = <<>> THEN [err |-> "Ok", ret |-> Table(map)]
    ELSE IF contains_key(map, Head(entries).key)
    THEN [err |-> "Custom", ret |-> NoValue]
    ELSE visit_key(BTreeInsert(map, Head(entries).key, Head(entries).val),
                   Tail(entries))

\* ValueVisitor::visit_map; the entry whose key is the key of the field of a
\* datetime is taken for a Datetime, which is its value here
visit_map(entries) ==
    IF entries = <<>> THEN [err |-> "Ok", ret |-> Table(<<>>)]
    ELSE IF Head(entries).key = SERDE_STRUCT_FIELD_NAME
    THEN [err |-> "Ok", ret |-> Head(entries).val]
    ELSE visit_key(BTreeInsert(<<>>, Head(entries).key, Head(entries).val),
                   Tail(entries))

(***************************************************************************)
(* to_string called once more on the same Value, after it has returned.    *)
(***************************************************************************)
\* Serializer::new: the engine on the buffer it is given, no aggregate open.
Serializer_new(buffer) == [dst |-> buffer, stack |-> <<>>, err |-> "Ok"]

\* What to_string returns: Ok(dst), or the error, the buffer being dropped.
Outcome == [result |-> result, text |-> IF result = "Ok" THEN dst ELSE <<>>]

\* Result::unwrap: the value of an Ok, a panic for an error.
unwrap(outcome) ==
    IF outcome.result = "Ok" THEN outcome
    ELSE [result |-> "panic", text |-> <<>>]

\* impl fmt::Display for Value: what formatting the Value gives, to_string
\* having returned.
Value_fmt == unwrap(Outcome)

\* A to_string that writes into the buffer of the call before it.
to_string_reusing ==
    /\ result # "none" /\ ~Generic /\ earlier = NoOutcome
    /\ earlier' = Outcome
    /\ dst' = Serializer_new(dst).dst
    /\ stack' = Serializer_new(dst).stack
    /\ result' = "none"
    /\ calls' = 0
    /\ todo' = ValueCalls(input)
    /\ UNCHANGED <<input, built>>

\* to_string: a new empty String, a new Serializer on it, the Value's calls.
to_string ==
    /\ result # "none" /\ ~Generic /\ earlier = NoOutcome
    /\ earlier' = Outcome
    /\ dst' = Serializer_new(<<>>).dst
    /\ stack' = Serializer_new(<<>>).stack
    /\ result' = "none"
    /\ calls' = 0
    /\ todo' = ValueCalls(input)
    /\ UNCHANGED <<input, built>>

Init ==
    /\ dst = <<>>
    /\ stack = <<>>
    /\ result = "none"
    /\ calls = 0
    /\ input = NoValue
    /\ todo = <<>>
    /\ built = NoValue
    /\ earlier = NoOutcome

InitValue ==
    /\ dst = <<>>
    /\ stack = <<>>
    /\ result = "none"
    /\ calls = 0
    /\ input \in ValueInputs
    /\ todo = ValueCalls(input)
    /\ built = NoValue
    /\ earlier = NoOutcome

Next ==
    \/ SerializeBool
    \/ SerializeI64
    \/ SerializeF64
    \/ SerializeStr
    \/ SerializeNone
    \/ SerializeUnsupported
    \/ SerializeSeq
    \/ SerializeMap
    \/ SerializeStruct
    \/ SerializeKey
    \/ SeqEnd
    \/ MapEnd
    \/ StructEnd

NextValue ==
    \/ SerializeBool
    \/ SerializeI64
    \/ SerializeF64
    \/ SerializeStr
    \/ SerializeSeq
    \/ SerializeMap
    \/ SerializeKey
    \/ SeqEnd
    \/ MapEnd

InitText ==
    /\ dst = <<>>
    /\ stack = <<>>
    /\ result = "none"
    /\ calls = 0
    /\ input \in TextInputs
    /\ todo = ValueCalls(input)
    /\ built = NoValue
    /\ earlier = NoOutcome

NextText ==
    \/ SerializeI64
    \/ SerializeF64
    \/ SerializeStr
    \/ SerializeMap
    \/ SerializeKey
    \/ MapEnd

InitBuild ==
    /\ dst = <<>>
    /\ stack = <<>>
    /\ result = "none"
    /\ calls = 0
    /\ input = NoValue
    /\ todo = <<>>
    /\ built = NoValue
    /\ earlier = NoOutcome

NextBuild ==
    \/ BuildScalar
    \/ BuildAggregate
    \/ BuildKey
    \/ BuildEnd

NextShapes ==
    \/ SerializeShape
    \/ SerializeI64
    \/ SerializeSeq
    \/ SerializeMap
    \/ SerializeStruct
    \/ SerializeKey
    \/ SeqEnd
    \/ MapEnd
    \/ StructEnd

\* to_string driven by any producer
Spec == Init /\ [][Next]_vars

\* to_string driven by Value's implementation of Serialize
SpecValue == InitValue /\ [][NextValue]_vars

\* to_string called on a Value, and once more on the same Value.
NextAgain ==
    \/ SerializeBool
    \/ SerializeI64
    \/ SerializeF64
    \/ SerializeStr
    \/ SerializeSeq
    \/ SerializeMap
    \/ SerializeKey
    \/ SeqEnd
    \/ MapEnd
    \/ to_string

SpecAgain == InitValue /\ [][NextAgain]_vars

\* to_string on a string, a float or a table with one key
SpecText == InitText /\ [][NextText]_vars

\* to_string driven by a producer of integers, aggregates, shapes the format
\* has no place for, and wrappers
SpecShapes == Init /\ [][NextShapes]_vars

\* Value::try_from driven by any producer
SpecBuild == InitBuild /\ [][NextBuild]_vars

\* Value::try_from given a Value.
InitRebuild ==
    /\ dst = <<>>
    /\ stack = <<>>
    /\ result = "none"
    /\ calls = 0
    /\ input \in ValueInputs
    /\ todo = ValueCalls(input)
    /\ built = NoValue
    /\ earlier = NoOutcome

SpecRebuild == InitRebuild /\ [][NextBuild]_vars

\* Value::try_from given an integer.
InitInteger ==
    /\ dst = <<>>
    /\ stack = <<>>
    /\ result = "none"
    /\ calls = 0
    /\ input = NoValue
    /\ todo \in {<<c>> : c \in IntegerCalls}
    /\ built = NoValue
    /\ earlier = NoOutcome

NextInteger == BuildInteger

SpecInteger == InitInteger /\ [][NextInteger]_vars

(***************************************************************************)
(* Vocabulary of the properties.                                           *)
(***************************************************************************)
IsPrefix(p, t) == Len(p) <= Len(t) /\ SubSeq(t, 1, Len(p)) = p

EndsWith(t, p) ==
    Len(p) <= Len(t) /\ SubSeq(t, Len(t) - Len(p) + 1, Len(t)) = p

\* The number of lines of t that are exactly the line p (p ends in "\n").
Lines(t, p) ==
    Cardinality({i \in 1..(Len(t) - Len(p) + 1) :
                    /\ SubSeq(t, i, i + Len(p) - 1) = p
                    /\ (i = 1 \/ t[i - 1] = Ord("\n"))})

\* Every "]" of t closes a "[" of t, and every "[" is closed.
RECURSIVE Nesting(_, _)
Nesting(t, n) ==
    IF n = 0 THEN 0
    ELSE LET before == Nesting(t, n - 1)
         IN  IF before < 0 THEN before
             ELSE IF t[n] = Ord("[") THEN before + 1
             ELSE IF t[n] = Ord("]") THEN before - 1
             ELSE before

Balanced(t) == Nesting(t, Len(t)) = 0

\* Every array of v holds elements of one type, at every depth.
RECURSIVE Homogeneous(_)
Homogeneous(v) ==
    /\ \A i \in 1..Len(v.items) :
          v.items[i].tag = v.items[1].tag /\ Homogeneous(v.items[i])
    /\ \A i \in 1..Len(v.entries) : Homogeneous(v.entries[i].val)

\* No key of a table of v holds a line break, at every depth.
RECURSIVE NoLineBreakKeys(_)
NoLineBreakKeys(v) ==
    /\ \A i \in 1..Len(v.items) : NoLineBreakKeys(v.items[i])
    /\ \A i \in 1..Len(v.entries) :
          /\ \A j \in 1..Len(v.entries[i].key) : v.entries[i].key[j] # Ord("\n")
          /\ NoLineBreakKeys(v.entries[i].val)

\* The producer can make one more call.
Running == result = "none" /\ calls < MaxCalls

\* The step hands the value c to the engine.
Announce(c) == \E s \in AtValue : Commit(Value(s, c))

ScalarCalls == {c \in GenericCalls : c.op \in {"bool", "integer", "float", "str"}}

TaggedCalls == {c \in GenericCalls : TagOf(c) # "None"}

\* The step hands a scalar to the engine.
ScalarStep == \E c \in ScalarCalls : Announce(c)

\* The step ends a sequence no element of which was announced.
EmptySeqEnd == SeqEnd /\ Top(Eng).tags = {}

\* The value handed over next is (the first element of the arrays that
\* begin) the value of a field of the table open at depth i.
PendingField(st, i) ==
    /\ st[i].kind = "Table"
    /\ \A j \in (i + 1)..Len(st) :
          /\ st[j].kind = "Array"
          /\ st[j].first
          /\ st[j].type_ = IF j < Len(st) THEN "array" ELSE "None"

\* The key k as it is written: bare, or quoted with its escapes.
KeyWritten(k) == escape_key([dst |-> <<>>, stack |-> <<>>, err |-> "Ok"], k).dst

\* The keys of the tables open at depths 1..d, outermost first, dot-joined.
RECURSIVE Path(_, _)
Path(st, d) ==
    IF d = 0 THEN <<>>
    ELSE IF st[d].kind # "Table" THEN Path(st, d - 1)
    ELSE IF Path(st, d - 1) = <<>> THEN KeyWritten(st[d].key)
    ELSE Path(st, d - 1) \o Txt(<<".">>) \o KeyWritten(st[d].key)

\* The header line of the table that is the value at the chain st[1..d].
HeaderLine(st, d) ==
    IF st[d].kind = "Array"
    THEN Txt(<<"[", "[">>) \o Path(st, d) \o Txt(<<"]", "]", "\n">>)
    ELSE Txt(<<"[">>) \o Path(st, d) \o Txt(<<"]", "\n">>)

\* The step appends to the buffer the header line of the table at d, after
\* at most one empty line, and then what is in rest.
WritesHeader(d, rest) ==
    \E nl \in {<<>>, Txt(<<"\n">>)} : \E r \in rest :
        dst' = dst \o nl \o HeaderLine(stack, d) \o r

(***************************************************************************)
(* C1: for every Value whose root is a Table, with homogeneous arrays and  *)
(* keys without line breaks, to_string never fails with ValueAfterTable.   *)
(***************************************************************************)
C1_NoValueAfterTable ==
    (input.tag = "table" /\ Homogeneous(input) /\ NoLineBreakKeys(input))
        => result # "ValueAfterTable"

(***************************************************************************)
(* C2: once a field of a table whose value is a table has been emitted, a  *)
(* further scalar field or inline-array field of the same table fails with *)
(* ValueAfterTable and nothing is written for it.                          *)
(***************************************************************************)
C2_ValueAfterTableRejected ==
    [][\A i \in 1..Len(stack) :
          (/\ stack[i].subtable
           /\ PendingField(stack, i)
           /\ ScalarStep \/ (EmptySeqEnd /\ i < Len(stack)))
              => (result' = "ValueAfterTable" /\ dst' = dst)]_vars

(***************************************************************************)
(* C3: when the producer hands the engine an element of a sequence whose   *)
(* type tag differs from the tag of an element handed over before it,      *)
(* to_string fails with ArrayMixedType.                                    *)
(***************************************************************************)
C3_ArrayMixedType ==
    [][\A c \in TaggedCalls :
          (/\ stack # <<>>
           /\ Top(Eng).kind = "Array"
           /\ Top(Eng).tags \ {TagOf(c)} # {}
           /\ Announce(c))
              => result' = "ArrayMixedType"]_vars

\* The second element of [1, "a"] at the root has been rejected.
C3_Witness == result = "ArrayMixedType" /\ dst = Txt(<<"[", "1">>)

(***************************************************************************)
(* C4.  What the end of a sequence with no elements writes: `[]` at the    *)
(* root, `key = []` and a newline as a field, `[]` after `[` or `, ` as an *)
(* element of an array.                                                    *)
(***************************************************************************)
EmptyArrayWritten ==
    LET d == Len(stack) - 1
    IN  /\ result' \in {"none", "Ok"}
        /\ IsPrefix(dst, dst')
        /\ Top(Eng).type_ = "None"
        /\ CASE d = 0 -> dst' = dst \o Txt(<<"[", "]">>)
             [] d > 0 /\ stack[d].kind = "Table" ->
                  EndsWith(dst', KeyWritten(stack[d].key)
                                     \o Txt(<<" ", "=", " ", "[", "]", "\n">>))
             [] d > 0 /\ stack[d].kind = "Array" ->
                  IF stack[d].first
                  THEN EndsWith(dst', Txt(<<"[", "[", "]">>))
                  ELSE dst' = dst \o Txt(<<",", " ", "[", "]">>)

\* The sequence that ends is, directly or as the first element of the
\* arrays around it, the value of a field of a table that has already
\* written the header of a nested table or array of tables.
AfterTable ==
    \E i \in 1..(Len(stack) - 1) :
        /\ stack[i].kind = "Table"
        /\ stack[i].table_emitted
        /\ \A j \in (i + 1)..(Len(stack) - 1) :
              stack[j].kind = "Array" /\ stack[j].first

\* C4 as claimed: a sequence with no elements always serializes as `[]`,
\* without its element type being resolved, wherever it occurs.
C4_AlwaysWritten == [][EmptySeqEnd => EmptyArrayWritten]_vars

\* C4 as amended: a sequence with no elements serializes as `[]` without
\* its element type being resolved, except as the value of a field (or the
\* first element of the arrays of that field) of a table that has already
\* written a nested header: there to_string fails with ValueAfterTable and
\* nothing is written.
C4_WrittenUnlessAfterTable ==
    [][EmptySeqEnd =>
          IF AfterTable
          THEN result' = "ValueAfterTable" /\ dst' = dst
          ELSE EmptyArrayWritten]_vars

\* An empty sequence has been written as the field a of the root table.
C4_Witness ==
    /\ dst = Txt(<<"a", " ", "=", " ", "[", "]", "\n">>)
    /\ Len(stack) = 1

(***************************************************************************)
(* C5: Table{"a": Integer(1), "b": Table{"c": Integer(2)}}.                *)
(***************************************************************************)
\* C5 as claimed: the header follows the scalar lines directly, the text
\* is `a = 1\n[b]\nc = 2\n`.
C5_NoBytesBetween ==
    (input = ScenarioNested /\ result # "none")
        => /\ result = "Ok"
           /\ dst = Txt(<<"a", " ", "=", " ", "1", "\n",
                          "[", "b", "]", "\n",
                          "c", " ", "=", " ", "2", "\n">>)

\* C5 as amended: one empty line separates the scalar lines from the
\* header of the nested table, the text is `a = 1\n\n[b]\nc = 2\n`.
C5_EmptyLineBetween ==
    (input = ScenarioNested /\ result # "none")
        => /\ result = "Ok"
           /\ dst = Txt(<<"a", " ", "=", " ", "1", "\n", "\n",
                          "[", "b", "]", "\n",
                          "c", " ", "=", " ", "2", "\n">>)

C5_Witness == input = ScenarioNested /\ result = "Ok"

(***************************************************************************)
(* C6: a sequence of tables that is the field k of the root table writes   *)
(* exactly one `[[k]]` header line per element.                            *)
(***************************************************************************)
C6_OneHeaderPerElement ==
    \A i \in 1..Len(input.entries) :
        (/\ result = "Ok"
         /\ input.entries[i].val.items # <<>>
         /\ \A j \in 1..Len(input.entries[i].val.items) :
               input.entries[i].val.items[j].tag = "table")
            => Lines(dst, Txt(<<"[", "[">>) \o input.entries[i].key
                              \o Txt(<<"]", "]", "\n">>))
                   = Len(input.entries[i].val.items)

(***************************************************************************)
(* C7: in a successful output every `]` closes a `[` written before it.    *)
(***************************************************************************)
C7_BracketsMatch == result = "Ok" => Balanced(dst)

(***************************************************************************)
(* C8: every table header written is `[[path]]` when the table is an       *)
(* element of an array and `[path]` otherwise, path being the dot-joined   *)
(* keys of the tables from the outermost one down to the table itself.     *)
(***************************************************************************)
C8_HeaderForm ==
    Running =>
        /\ \A i \in 2..Len(stack) :
              (/\ PendingField(stack, i)
               /\ stack[i].first /\ ~stack[i].table_emitted)
                 => /\ \A c \in ScalarCalls : \A s \in AtValue :
                          \E nl \in {<<>>, Txt(<<"\n">>)} :
                             IsPrefix(dst \o nl \o HeaderLine(stack, i - 1),
                                      Value(s, c).dst)
                    /\ (i < Len(stack) /\ Top(Eng).iface = "seq"
                            /\ Top(Eng).tags = {})
                          => \E nl \in {<<>>, Txt(<<"\n">>)} :
                                IsPrefix(dst \o nl \o HeaderLine(stack, i - 1),
                                         SerializeSeq_end(Eng).dst)
        /\ (/\ Len(stack) >= 2
            /\ Top(Eng).iface = "map" /\ Top(Eng).expect = "key"
            /\ Top(Eng).first)
              => \E nl \in {<<>>, Txt(<<"\n">>)} :
                    SerializeMap_end(Eng).dst
                        = dst \o nl \o HeaderLine(stack, Len(stack) - 1)

\* The header of the empty table a of the table a has been written.
C8_Witness == dst = Txt(<<"[", "a", ".", "a", "]", "\n">>)

(***************************************************************************)
(* C9: a table opened through the map or the struct interface that ends    *)
(* with no field written and no header forced gets its header written at   *)
(* the end; the root table gets none.                                      *)
(***************************************************************************)
C9_EmptyTableHeader ==
    [][((MapEnd \/ StructEnd)
           /\ Top(Eng).kind = "Table"
           /\ Top(Eng).first /\ ~Top(Eng).table_emitted)
          => IF Len(stack) = 1 THEN dst' = dst
             ELSE WritesHeader(Len(stack) - 1, {<<>>})]_vars

(***************************************************************************)
(* C10: to_string on a bare scalar at the top level.                       *)
(***************************************************************************)
\* C10 as claimed: it fails with UnsupportedType.
C10_RootScalarUnsupported ==
    [][(stack = <<>> /\ ScalarStep) => result' = "UnsupportedType"]_vars

\* C10 as amended: it succeeds, and the text is the scalar alone, without
\* a key and without a newline.
C10_RootScalarWritten ==
    [][\A c \in ScalarCalls :
          (stack = <<>> /\ Announce(c))
              => /\ result' = "Ok"
                 /\ dst' = CASE c.op = "bool"    -> Txt(<<"t", "r", "u", "e">>)
                             [] c.op = "integer" -> Txt(<<"1">>)
                             [] c.op = "float"   -> Txt(<<"4", ".", "0">>)
                             [] c.op = "str"     -> Txt(<<"\"", "a", "\"">>)]_vars

C10_Witness == result = "Ok" /\ dst = Txt(<<"4", ".", "0">>) /\ calls = 1

(***************************************************************************)
(* C11: to_string on a top-level array of scalars.                         *)
(***************************************************************************)
\* The input is an array, not empty, whose elements are all scalars.
RootArrayOfScalars ==
    /\ input.tag = "array"
    /\ input.items # <<>>
    /\ \A i \in 1..Len(input.items) :
          input.items[i].tag \in {"integer", "string"}

\* The elements of a, as they are written inline: integers by their digits,
\* strings (of characters that need no escape) between double quotes.
RECURSIVE Inline(_)
Inline(a) ==
    IF a = <<>> THEN <<>>
    ELSE (IF Head(a).tag = "integer" THEN IntText(Head(a).n)
          ELSE Txt(<<"\"">>) \o Head(a).text \o Txt(<<"\"">>))
         \o (IF Tail(a) = <<>> THEN <<>> ELSE Txt(<<",", " ">>))
         \o Inline(Tail(a))

\* C11 as claimed: to_string on a top-level array of non-table elements
\* fails with UnsupportedType.
C11_RootArrayUnsupported ==
    (RootArrayOfScalars /\ result # "none") => result = "UnsupportedType"

\* C11 as amended: to_string on a top-level array of scalars succeeds when
\* the elements have one type, and returns them inline between `[` and `]`
\* without a newline; with elements of different types it fails with
\* ArrayMixedType.
C11_RootArrayInline ==
    (RootArrayOfScalars /\ result # "none") =>
        IF \A i \in 1..Len(input.items) : input.items[i].tag = input.items[1].tag
        THEN /\ result = "Ok"
             /\ dst = Txt(<<"[">>) \o Inline(input.items) \o Txt(<<"]">>)
        ELSE result = "ArrayMixedType"

\* to_string has returned for Array[Integer(1), String("a")].
C11_Witness ==
    /\ input = Array(<<Integer(1), String(Txt(<<"a">>))>>)
    /\ result = "ArrayMixedType"

(***************************************************************************)
(* Absence.                                                                *)
(***************************************************************************)
NoneCall == Call("none", 0, "", <<>>)

\* The depth of the innermost open table of the chain st (0: none).
RECURSIVE InnermostTable(_)
InnermostTable(st) ==
    IF st = <<>> THEN 0
    ELSE IF st[Len(st)].kind = "Table" THEN Len(st)
    ELSE InnermostTable(SubSeq(st, 1, Len(st) - 1))

\* The step hands an absence to the engine started at s, where it is (part
\* of) the value of a field of a table.
AbsentInField(s) ==
    /\ s.stack # <<>>
    /\ Top(s).kind # "Datetime"
    /\ InnermostTable(s.stack) > 0
    /\ Commit(Value(s, NoneCall))

(***************************************************************************)
(* C12: when serializing the value of a table field ends in an absence     *)
(* (UnsupportedNone), the field is omitted and the table continues: the    *)
(* buffer and the first and table_emitted flags of the table are what they *)
(* were before the field.                                                  *)
(***************************************************************************)
C12_AbsentFieldOmitted ==
    [][\A s \in AtValue :
          AbsentInField(s) =>
              LET i == InnermostTable(s.stack)
              IN  /\ result' = "none"
                  /\ Len(stack') = i
                  /\ dst' = SubSeq(dst, 1, s.stack[i].mark)
                  /\ stack'[i].first = s.stack[i].was_first
                  /\ stack'[i].table_emitted = s.stack[i].was_emitted]_vars

(***************************************************************************)
(* C13: an absence at the top level or as an element of a sequence makes   *)
(* to_string fail with UnsupportedNone, whatever contains the sequence.    *)
(***************************************************************************)
C13_AbsenceFails ==
    [][\A s \in AtValue :
          ((stack = <<>> \/ Top(Eng).kind = "Array") /\ Commit(Value(s, NoneCall)))
              => result' = "UnsupportedNone"]_vars

(***************************************************************************)
(* C14: the engine is fail-fast.                                           *)
(***************************************************************************)
\* The calls by which a producer hands a value to the engine.
ValueCallsOffered ==
    {c \in GenericCalls :
        c.op \in {"bool", "integer", "float", "str", "none", "unsupported",
                  "seq", "map", "struct"}}

\* What the handler of the value c returns to the aggregate it is given to.
Raised(s, c) == Enter(Element(s, c), c).err

\* The error is an absence raised in (a sequence in) a field of a table.
Dropped(s, c) == Raised(s, c) = "UnsupportedNone" /\ InnermostTable(s.stack) > 0

RECURSIVE KeysGiven(_, _)
KeysGiven(cs, depth) ==
    IF cs = <<>> THEN <<>>
    ELSE CASE Head(cs).op \in {"seq", "map"} -> KeysGiven(Tail(cs), depth + 1)
           [] Head(cs).op \in {"seq_end", "map_end"} ->
                KeysGiven(Tail(cs), depth - 1)
           [] Head(cs).op = "key" /\ depth = 1 ->
                <<Head(cs).text>> \o KeysGiven(Tail(cs), depth)
           [] OTHER -> KeysGiven(Tail(cs), depth)

\* The text a comes before the text b in the order of the keys of a Table.
RECURSIVE TextLess(_, _)
TextLess(a, b) ==
    IF b = <<>> THEN FALSE
    ELSE IF a = <<>> THEN TRUE
    ELSE IF Head(a) # Head(b) THEN Head(a) < Head(b)
    ELSE TextLess(Tail(a), Tail(b))

Ascending(ks) == \A i \in 1..(Len(ks) - 1) : TextLess(ks[i], ks[i + 1])

\* The keys of the entries of t whose value has a tag among tags.
RECURSIVE KeysTagged(_, _)
KeysTagged(t, tags) ==
    IF t = <<>> THEN <<>>
    ELSE (IF Head(t).val.tag \in tags THEN <<Head(t).key>> ELSE <<>>)
         \o KeysTagged(Tail(t), tags)

Drop(t, n) == SubSeq(t, n + 1, Len(t))

\* The input is a table with the one key k, whose value is Integer(1).
OneKey(k) == input = Table(<<[key |-> k, val |-> Integer(1)]>>)

\* The characters [A-Za-z0-9_-], by their code points.
KeyClass == (65..90) \cup (97..122) \cup (48..57) \cup {45, 95}

Digits == 48..57

\* The second character of the two-character escape of a character.
ShortEscape(c) ==
    CASE c = 8 -> Ord("b") [] c = 9 -> Ord("t") [] c = 10 -> Ord("n")
      [] c = 12 -> Ord("f") [] c = 13 -> Ord("r") [] c = 34 -> Ord("\"")
      [] c = 92 -> Ord("\\") [] OTHER -> 0

(***************************************************************************)
(* C16: a table key is written bare exactly when it matches [A-Za-z0-9_-]+ *)
(* (one or more characters of that class); every other key, the empty key  *)
(* included, is written as a double-quoted string.                         *)
(***************************************************************************)
C16_BareOrQuoted ==
    \A k \in Texts :
        (OneKey(k) /\ result = "Ok") =>
            IF k # <<>> /\ \A i \in 1..Len(k) : k[i] \in KeyClass
            THEN dst = k \o Txt(<<" ", "=", " ", "1", "\n">>)
            ELSE /\ dst[1] = Ord("\"")
                 /\ EndsWith(dst, Txt(<<"\"", " ", "=", " ", "1", "\n">>))

(***************************************************************************)
(* C17: a string is emitted between double quotes, with backspace, tab,    *)
(* newline, form feed, carriage return, double quote and backslash each    *)
(* replaced by its two-character escape, every other character below 0x1F  *)
(* by a numeric escape (\u and four digits), and every other character     *)
(* copied unchanged.                                                       *)
(***************************************************************************)
\* out is the text t with its characters replaced as the claim says.
RECURSIVE Escaped(_, _)
Escaped(t, out) ==
    IF t = <<>> THEN out = <<>>
    ELSE IF ShortEscape(Head(t)) # 0
    THEN /\ Len(out) >= 2
         /\ out[1] = Ord("\\") /\ out[2] = ShortEscape(Head(t))
         /\ Escaped(Tail(t), Drop(out, 2))
    ELSE IF Head(t) < 31
    THEN /\ Len(out) >= 6
         /\ out[1] = Ord("\\") /\ out[2] = Ord("u")
         /\ \A i \in 3..6 : out[i] \in Digits
         /\ Escaped(Tail(t), Drop(out, 6))
    ELSE /\ Len(out) >= 1
         /\ out[1] = Head(t)
         /\ Escaped(Tail(t), Drop(out, 1))

C17_StringEscaped ==
    (input.tag = "string" /\ result # "none") =>
        /\ result = "Ok"
        /\ Len(dst) >= 2
        /\ dst[1] = Ord("\"") /\ dst[Len(dst)] = Ord("\"")
        /\ Escaped(input.text, SubSeq(dst, 2, Len(dst) - 1))

\* A string of a control character without a two-character escape and of
\* the character 0x1F has been written.
C17_Witness == input = String(<<11, 31>>) /\ result = "Ok"

(***************************************************************************)
(* C18: string escaping round-trips: decoding the emitted token with the   *)
(* escape grammar of the format (the two-character escapes, and \uXXXX     *)
(* read as four hexadecimal digits) gives back the original string.        *)
(***************************************************************************)
\* The value of a hexadecimal digit.
HexValue(c) ==
    IF c \in 48..57 THEN c - 48
    ELSE IF c \in 97..102 THEN c - 87
    ELSE c - 55

\* The character a two-character escape \c stands for.
Unescape(c) ==
    CASE c = Ord("b") -> 8 [] c = Ord("t") -> 9 [] c = Ord("n") -> 10
      [] c = Ord("f") -> 12 [] c = Ord("r") -> 13 [] OTHER -> c

\* The string that the body of a quoted token stands for.
RECURSIVE Decode(_)
Decode(t) ==
    IF t = <<>> THEN <<>>
    ELSE IF Head(t) # Ord("\\") \/ Len(t) < 2 THEN <<Head(t)>> \o Decode(Tail(t))
    ELSE IF t[2] = Ord("u") /\ Len(t) >= 6
    THEN <<HexValue(t[3]) * 4096 + HexValue(t[4]) * 256
             + HexValue(t[5]) * 16 + HexValue(t[6])>> \o Decode(Drop(t, 6))
    ELSE <<Unescape(t[2])>> \o Decode(Drop(t, 2))

C18_RoundTrip ==
    (input.tag = "string" /\ result = "Ok") =>
        Decode(SubSeq(dst, 2, Len(dst) - 1)) = input.text

(***************************************************************************)
(* C19: every float is emitted as a token that contains a decimal point.   *)
(***************************************************************************)
C19_DecimalPoint ==
    (input.tag = "float" /\ result # "none") =>
        /\ result = "Ok"
        /\ \E i \in 1..Len(dst) : dst[i] = Ord(".")

(***************************************************************************)
(* C20: a table key that contains a line break.                            *)
(***************************************************************************)
HasLineBreak(k) == \E i \in 1..Len(k) : k[i] = Ord("\n")

\* The step gives the key of c to the table on top, opened as a map.
KeyStep(c) ==
    /\ stack # <<>>
    /\ Top(Eng).iface = "map" /\ Top(Eng).expect = "key"
    /\ Commit(serialize_key(
           [Eng EXCEPT !.stack[Len(stack)].used = @ \cup {c.text}], c))

\* A key with a line break given through the map interface, which is the
\* interface of Value's tables: KeyNewline, and nothing is written.
MapKeyNewline ==
    \A c \in GenericCalls :
        (c.op = "key" /\ HasLineBreak(c.text) /\ KeyStep(c))
            => (result' = "KeyNewline" /\ dst' = dst)

\* The step gives the table on top, opened as a struct, a field whose key
\* has a line break, with the value c.
FieldStep(s, c) ==
    /\ stack # <<>>
    /\ Top(Eng).iface = "struct" /\ Top(Eng).kind = "Table"
    /\ HasLineBreak(Top(s).key)
    /\ Commit(Value(s, c))

\* C20 as claimed: a key with a line break makes to_string fail with
\* KeyNewline for every table, given through the map interface or through
\* the struct interface, and nothing is written for the field.
C20_KeyNewlineEverywhere ==
    [][/\ MapKeyNewline
       /\ \A c \in ValueCallsOffered : \A s \in AtValue :
             FieldStep(s, c) => (result' = "KeyNewline" /\ dst' = dst)]_vars

\* C20 as amended: a key with a line break given through the map interface
\* (Value's tables included) makes to_string fail with KeyNewline, and
\* nothing is written for the field.  The key of a field given through the
\* struct interface is not looked at: no value makes to_string fail with
\* KeyNewline there, and a scalar is written after the quoted key, its line
\* break escaped.  Stated of every call the producer can make next.
C20_KeyNewlineInMaps ==
    (Running /\ stack # <<>>) =>
        /\ (Top(Eng).iface = "map" /\ Top(Eng).expect = "key")
              => \A c \in GenericCalls :
                    (c.op = "key" /\ HasLineBreak(c.text)) =>
                        LET r == serialize_key(Eng, c)
                        IN  /\ r.err = "KeyNewline"
                            /\ r.stack = <<>>
                            /\ r.dst = dst
        /\ (Top(Eng).iface = "struct" /\ Top(Eng).kind = "Table")
              => \A s \in AtValue :
                    HasLineBreak(Top(s).key) =>
                        \A c \in ValueCallsOffered :
                            LET r == Value(s, c)
                            IN  /\ r.err # "KeyNewline"
                                /\ (c.op = "integer" /\ ~Top(Eng).table_emitted)
                                      => /\ r.err = "Ok"
                                         /\ EndsWith(r.dst,
                                                Txt(<<"\"", "n", "\\", "n", "\"",
                                                      " ", "=", " ", "1", "\n">>))

\* The second key of a map had a line break: what was written for the
\* first field is all there is.
C20_Witness ==
    /\ result = "KeyNewline"
    /\ dst = Txt(<<"a", " ", "=", " ", "1", "\n">>)

(***************************************************************************)
(* C21: in both consumers, the text engine and the consumer behind         *)
(* Value::try_from, a map key that the producer announces as anything      *)
(* other than a string fails with KeyNotString, and a key announced as a   *)
(* string is accepted.  Keys with a line break, which the text engine      *)
(* refuses with KeyNewline, are left aside.                                *)
(***************************************************************************)
\* The text engine with a map open at the root, before any key.
MapAtRoot == Open([dst |-> <<>>, stack |-> <<>>, err |-> "Ok"], "Table", "map")

\* The consumer behind Value::try_from can be given a key.
AtBuildKey ==
    /\ Running
    /\ stack # <<>>
    /\ Top(Bld).kind = "Map"
    /\ Top(Bld).expect = "key"

C21_KeyNotString ==
    /\ \A c \in GenericCalls :
          /\ c.op = "key_other" =>
                /\ serialize_key(MapAtRoot, c).err = "KeyNotString"
                /\ serialize_key(MapAtRoot, c).dst = <<>>
          /\ (c.op = "key" /\ ~HasLineBreak(c.text)) =>
                /\ serialize_key(MapAtRoot, c).err = "Ok"
                /\ Top(serialize_key(MapAtRoot, c)).key = c.text
    /\ AtBuildKey =>
          \A c \in BuildCalls :
             /\ c.op = "key_other" =>
                   /\ Value_serialize_key(Bld, c).err = "KeyNotString"
                   /\ Value_serialize_key(Bld, c).stack = <<>>
             /\ c.op = "key" =>
                   /\ Value_serialize_key(Bld, c).err = "Ok"
                   /\ Top(Value_serialize_key(Bld, c)).next_key = c.text

(***************************************************************************)
(* C22: the sentinel datetime aggregate succeeds only with exactly one     *)
(* field, named with the sentinel field name, whose value is a string, and *)
(* then writes that string as a bare token; every other shape (no field,   *)
(* more than one field, another field name, a value that is not a string)  *)
(* fails with DateInvalid.                                                 *)
(***************************************************************************)
\* The producer is inside the datetime aggregate and can make one more call.
InDatetime == Running /\ stack # <<>> /\ Top(Eng).kind = "Datetime"

C22_DateInvalid ==
    InDatetime =>
        /\ \A s \in AtValue : \A c \in ValueCallsOffered :
              IF /\ Top(s).key = SERDE_STRUCT_FIELD_NAME
                 /\ Top(Eng).used = {}
                 /\ c.op = "str"
              THEN /\ Value(s, c).err # "DateInvalid"
                   /\ Value(s, c).err = "Ok" =>
                         LET nl == IF IsTable(Eng, Len(stack) - 1)
                                   THEN Txt(<<"\n">>) ELSE <<>>
                         IN  /\ IsPrefix(dst, Value(s, c).dst)
                             /\ EndsWith(Value(s, c).dst, c.text \o nl)
                             /\ ~EndsWith(Value(s, c).dst, Txt(<<"\"">>) \o nl)
              ELSE /\ Value(s, c).err = "DateInvalid"
                   /\ Value(s, c).stack = <<>>
        /\ SerializeStruct_end(Eng).err = "Ok"
              => Top(Eng).used = {SERDE_STRUCT_FIELD_NAME}

(***************************************************************************)
(* C23: rebuilding a Value table from protocol calls fails with a          *)
(* duplicate-key error whenever a key repeats within one aggregate, and    *)
(* never silently keeps one of the two values; for the consumer behind     *)
(* Value::try_from and for Value's Deserialize visitor.                    *)
(***************************************************************************)
\* The entries a MapVisitor may hand over: at most three, over two keys.
VisitedEntries ==
    LET E == {[key |-> k, val |-> Integer(n)] : k \in BuildKeys, n \in {1, 2}}
    IN  {<<>>} \cup {<<a>> : a \in E} \cup {<<a, b>> : a \in E, b \in E}
            \cup {<<a, b, c>> : a \in E, b \in E, c \in E}

\* A key repeats within the entries.
Repeats(entries) ==
    \E i \in 1..Len(entries) : \E j \in (i + 1)..Len(entries) :
        entries[i].key = entries[j].key

\* The map on top has been given, for the value to come, a key it holds.
AtRepeatedKey ==
    /\ Running
    /\ stack # <<>>
    /\ Top(Bld).kind = "Map"
    /\ Top(Bld).expect = "value"
    /\ contains_key(Top(Bld).map, Top(Bld).next_key)

C23_DuplicateKey ==
    /\ \A entries \in VisitedEntries :
          Repeats(entries) => visit_map(entries).err # "Ok"
    /\ AtRepeatedKey =>
          \A c \in BuildCalls :
             c.op = "integer" => Value_try_from(Bld, c).err # "Ok"

(***************************************************************************)
(* C24: the text engine rejects with UnsupportedType, and writes nothing   *)
(* for, byte strings, unit, unit structs, tuples, tuple structs and every  *)
(* variant form; newtype structs and Some(x) serialize as their inner      *)
(* value.  Stated of every such call the producer can make next to the     *)
(* Serializer, that is anywhere but inside the datetime aggregate.         *)
(***************************************************************************)
C24_ShapesRejected ==
    (Running /\ (stack = <<>> \/ Top(Eng).kind # "Datetime")) =>
        \A s \in AtValue : \A c \in ShapeCalls :
           IF c.op = "unsupported"
           THEN /\ Value(s, c).err = "UnsupportedType"
                /\ Value(s, c).stack = <<>>
                /\ Value(s, c).dst = dst
           ELSE /\ Value(s, c) = Value(s, Inner(c))
                /\ Inner(c).op \in {"integer", "str", "seq"}

\* A tuple (or another of these shapes) was the second element of the
\* sequence that is the field a of the root table.
C24_Witness ==
    /\ result = "UnsupportedType"
    /\ dst = Txt(<<"a", " ", "=", " ", "[", "1">>)

(***************************************************************************)
(* A reader of the format, for the texts of this model: lines that are     *)
(* empty, a table header `[path]`, an array-of-tables header `[[path]]`,   *)
(* or `key = value`; keys bare or quoted; values that are integers, floats *)
(* with one fractional digit, booleans, quoted strings and inline arrays.  *)
(* What is read is [ok, val, rest]: whether a token was read, what it      *)
(* stands for, and the text after it.                                      *)
(***************************************************************************)
NoParse == [ok |-> FALSE, val |-> NoValue, rest |-> <<>>]

Parsed(val, rest) == [ok |-> TRUE, val |-> val, rest |-> rest]

Front(t) == SubSeq(t, 1, Len(t) - 1)

RECURSIVE SkipSpaces(_)
SkipSpaces(t) ==
    IF t # <<>> /\ Head(t) = Ord(" ") THEN SkipSpaces(Tail(t)) ELSE t

\* The lines of a text, without the line breaks that end them.
RECURSIVE SplitLines(_, _)
SplitLines(t, line) ==
    IF t = <<>> THEN IF line = <<>> THEN <<>> ELSE <<line>>
    ELSE IF Head(t) = Ord("\n") THEN <<line>> \o SplitLines(Tail(t), <<>>)
    ELSE SplitLines(Tail(t), Append(line, Head(t)))

\* The place of the quote that closes the quoted token t, sought from i on;
\* 0 if there is none.
RECURSIVE QuoteEnd(_, _)
QuoteEnd(t, i) ==
    IF i > Len(t) THEN 0
    ELSE IF t[i] = Ord("\"") THEN i
    ELSE IF t[i] = Ord("\\") THEN QuoteEnd(t, i + 2)
    ELSE QuoteEnd(t, i + 1)

ReadQuoted(t) ==
    IF QuoteEnd(t, 2) = 0 THEN NoParse
    ELSE Parsed(Decode(SubSeq(t, 2, QuoteEnd(t, 2) - 1)), Drop(t, QuoteEnd(t, 2)))

\* The number of characters at the start of t that are in the set chars.
RECURSIVE Run(_, _)
Run(t, chars) ==
    IF t # <<>> /\ Head(t) \in chars THEN 1 + Run(Tail(t), chars) ELSE 0

BareChars == (48..57) \cup (65..90) \cup (97..122) \cup {45, 95}

ReadKey(t) ==
    IF t = <<>> THEN NoParse
    ELSE IF Head(t) = Ord("\"") THEN ReadQuoted(t)
    ELSE IF Run(t, BareChars) = 0 THEN NoParse
    ELSE Parsed(SubSeq(t, 1, Run(t, BareChars)), Drop(t, Run(t, BareChars)))

\* A dotted path: the sequence of its keys.
RECURSIVE ReadPath(_)
ReadPath(t) ==
    LET k == ReadKey(t)
    IN  IF ~k.ok THEN NoParse
        ELSE IF k.rest # <<>> /\ Head(k.rest) = Ord(".")
        THEN LET p == ReadPath(Tail(k.rest))
             IN  IF p.ok THEN Parsed(<<k.val>> \o p.val, p.rest) ELSE NoParse
        ELSE Parsed(<<k.val>>, k.rest)

\* The number a sequence of decimal digits stands for.
RECURSIVE NumValue(_)
NumValue(ds) ==
    IF ds = <<>> THEN 0 ELSE NumValue(Front(ds)) * 10 + (ds[Len(ds)] - 48)

ReadNumber(t) ==
    LET neg == t # <<>> /\ Head(t) = Ord("-")
        u == IF neg THEN Tail(t) ELSE t
        n == Run(u, 48..57)
        whole == NumValue(SubSeq(u, 1, n))
        after == Drop(u, n)
        sign == IF neg THEN 0 - 1 ELSE 1
    IN  IF n = 0 THEN NoParse
        ELSE IF after # <<>> /\ Head(after) = Ord(".")
        THEN IF Run(Tail(after), 48..57) # 1 THEN NoParse
             ELSE Parsed(Float([cls |-> "finite",
                                tenths |-> sign * (whole * 10 + after[2] - 48)]),
                         Drop(after, 2))
        ELSE Parsed(Integer(sign * whole), after)

RECURSIVE ReadValue(_)
RECURSIVE ReadItems(_, _)

ReadValue(t) ==
    IF t = <<>> THEN NoParse
    ELSE IF Head(t) = Ord("\"")
    THEN IF ReadQuoted(t).ok
         THEN Parsed(String(ReadQuoted(t).val), ReadQuoted(t).rest)
         ELSE NoParse
    ELSE IF Head(t) = Ord("[") THEN ReadItems(SkipSpaces(Tail(t)), <<>>)
    ELSE IF IsPrefix(Txt(<<"t", "r", "u", "e">>), t)
    THEN Parsed(Boolean(TRUE), Drop(t, 4))
    ELSE IF IsPrefix(Txt(<<"f", "a", "l", "s", "e">>), t)
    THEN Parsed(Boolean(FALSE), Drop(t, 5))
    ELSE ReadNumber(t)

\* The elements of an inline array after those in items, up to its `]`.
ReadItems(t, items) ==
    IF t = <<>> THEN NoParse
    ELSE IF Head(t) = Ord("]") THEN Parsed(Array(items), Tail(t))
    ELSE LET v == ReadValue(t)
             r == SkipSpaces(v.rest)
         IN  IF ~v.ok \/ r = <<>> THEN NoParse
             ELSE IF Head(r) = Ord(",")
             THEN ReadItems(SkipSpaces(Tail(r)), Append(items, v.val))
             ELSE IF Head(r) = Ord("]")
             THEN Parsed(Array(Append(items, v.val)), Tail(r))
             ELSE NoParse

\* The value of the key in the entries of a table; NoValue if it has none.
Lookup(entries, key) ==
    IF contains_key(entries, key)
    THEN entries[CHOOSE i \in 1..Len(entries) : entries[i].key = key].val
    ELSE NoValue

Unreadable == Variant("unreadable", 0, "", <<>>, <<>>, <<>>)

\* The table a path leads to from the table v, an array of tables standing
\* for its last table: NoValue if a key of the path is not there,
\* Unreadable if it is there and is no table.
RECURSIVE GetAt(_, _)
GetAt(v, path) ==
    IF v.tag = "array"
    THEN IF v.items # <<>> /\ v.items[Len(v.items)].tag = "table"
         THEN GetAt(v.items[Len(v.items)], path)
         ELSE Unreadable
    ELSE IF v.tag # "table" THEN Unreadable
    ELSE IF path = <<>> THEN v
    ELSE IF Lookup(v.entries, Head(path)) = NoValue THEN NoValue
    ELSE GetAt(Lookup(v.entries, Head(path)), Tail(path))

\* The table v with the table the path leads to replaced by new; the tables
\* of the path that are not there are made.
RECURSIVE SetAt(_, _, _)
SetAt(v, path, new) ==
    IF v.tag = "array"
    THEN Array(Append(Front(v.items), SetAt(v.items[Len(v.items)], path, new)))
    ELSE IF path = <<>> THEN new
    ELSE Table(BTreeInsert(
             v.entries, Head(path),
             SetAt(IF Lookup(v.entries, Head(path)) = NoValue THEN Table(<<>>)
                   ELSE Lookup(v.entries, Head(path)),
                   Tail(path), new)))

\* What has been read of a document: the root table and the path of the
\* table the next `key = value` line belongs to.
Document(root, cur) == [ok |-> TRUE, root |-> root, cur |-> cur]

NoDocument == [ok |-> FALSE, root |-> Unreadable, cur |-> <<>>]

\* A `key = value` line
SetKey(doc, key, value) ==
    LET t == GetAt(doc.root, doc.cur)
    IN  IF t.tag # "table" \/ contains_key(t.entries, key) THEN NoDocument
        ELSE Document(SetAt(doc.root, doc.cur,
                            Table(BTreeInsert(t.entries, key, value))),
                      doc.cur)

\* A `[path]` line
DefineTable(doc, path) ==
    LET t == GetAt(doc.root, Front(path))
    IN  IF t = Unreadable THEN NoDocument
        ELSE IF t # NoValue /\ contains_key(t.entries, path[Len(path)])
        THEN NoDocument
        ELSE Document(SetAt(doc.root, path, Table(<<>>)), path)

\* A `[[path]]` line
AppendTable(doc, path) ==
    LET t == GetAt(doc.root, Front(path))
        old == IF t = NoValue THEN NoValue
               ELSE Lookup(t.entries, path[Len(path)])
        entries == IF t = NoValue THEN <<>> ELSE t.entries
    IN  IF t = Unreadable THEN NoDocument
        ELSE IF old = NoValue
        THEN Document(SetAt(doc.root, Front(path),
                            Table(BTreeInsert(entries, path[Len(path)],
                                              Array(<<Table(<<>>)>>)))),
                      path)
        ELSE IF GetAt(old, <<>>) = Unreadable \/ old.tag # "array"
        THEN NoDocument
        ELSE Document(SetAt(doc.root, Front(path),
                            Table(BTreeInsert(entries, path[Len(path)],
                                              Array(Append(old.items,
                                                           Table(<<>>)))))),
                      path)

ReadLine(doc, line) ==
    IF ~doc.ok \/ line = <<>> THEN doc
    ELSE IF IsPrefix(Txt(<<"[", "[">>), line)
    THEN LET p == ReadPath(Drop(line, 2))
         IN  IF p.ok /\ p.rest = Txt(<<"]", "]">>)
             THEN AppendTable(doc, p.val) ELSE NoDocument
    ELSE IF Head(line) = Ord("[")
    THEN LET p == ReadPath(Tail(line))
         IN  IF p.ok /\ p.rest = Txt(<<"]">>)
             THEN DefineTable(doc, p.val) ELSE NoDocument
    ELSE LET k == ReadKey(line)
             r == SkipSpaces(k.rest)
             v == ReadValue(SkipSpaces(Tail(r)))
         IN  IF ~k.ok \/ r = <<>> THEN NoDocument
             ELSE IF Head(r) # Ord("=") THEN NoDocument
             ELSE IF v.ok /\ SkipSpaces(v.rest) = <<>>
             THEN SetKey(doc, k.val, v.val) ELSE NoDocument

RECURSIVE ReadLines(_, _)
ReadLines(doc, lines) ==
    IF lines = <<>> THEN doc
    ELSE ReadLines(ReadLine(doc, Head(lines)), Tail(lines))

\* The Value a text stands for; Unreadable if it is no document.
Read(text) ==
    ReadLines(Document(Table(<<>>), <<>>), SplitLines(text, <<>>)).root

(***************************************************************************)
(* C25: round-trip law: for every Value whose root is a Table, to_string   *)
(* succeeds and the text, read by a reader of the format, gives a Value    *)
(* equal to the input.                                                     *)
(***************************************************************************)
C25_RoundTrip ==
    (input.tag = "table" /\ result # "none")
        => (result = "Ok" /\ Read(dst) = input)

(***************************************************************************)
(* to_string as one call that runs to its end: the producer and the engine *)
(* are one thread of straight-line code, so a handler that can be called   *)
(* is called.                                                              *)
(***************************************************************************)
SpecValueLive == InitValue /\ [][NextValue]_vars /\ WF_vars(NextValue)

(***************************************************************************)
(* C26: to_string terminates on every finite Value: the engine is called   *)
(* at most once for each call the Value stands for, and the call ends in   *)
(* Ok or in an error.                                                      *)
(***************************************************************************)
C26_Terminates ==
    /\ [](calls + Len(todo) <= Len(ValueCalls(input)))
    /\ <>(result # "none")

\* to_string has returned Ok for a Value of two tables, after a call for
\* each of its nodes, keys and ends.
C26_Witness ==
    /\ result = "Ok"
    /\ input = ScenarioNested
    /\ calls = Len(ValueCalls(input))

Enclosing(old, new, d, kept) ==
    \A i \in 1..(d - 1) :
        IF old[i].kind = "Table"
        THEN /\ new[i].table_emitted
             /\ i <= kept => new[i] = [old[i] EXCEPT !.table_emitted = TRUE]
        ELSE /\ new[i].type_ = old[i].type_
             /\ i <= kept => new[i] = old[i]

C28_HeaderMarksEnclosing ==
    Running =>
        /\ \A s \in AtValue : \A c \in ScalarCalls :
              (s.stack # <<>> /\ Top(s).kind = "Table") =>
                  IF Top(s).table_emitted
                  THEN /\ Value(s, c).err = "ValueAfterTable"
                       /\ Value(s, c).dst = dst
                  ELSE /\ Value(s, c).err = "Ok"
                       /\ Top(Value(s, c)).table_emitted = FALSE
                       /\ Top(s).first =>
                             /\ Enclosing(s.stack, Value(s, c).stack, Depth(s),
                                          Depth(s) - 1)
                             /\ Depth(s) > 1 =>
                                   \E nl \in {<<>>, Txt(<<"\n">>)} :
                                       IsPrefix(dst \o nl
                                                    \o HeaderLine(stack, Depth(s) - 1),
                                                Value(s, c).dst)
        /\ (/\ stack # <<>>
            /\ Top(Eng).iface = "map" /\ Top(Eng).expect = "key"
            /\ Top(Eng).first) =>
              /\ SerializeMap_end(Eng).err = "Ok"
              /\ Enclosing(stack, SerializeMap_end(Eng).stack, Depth(Eng),
                           Depth(Eng) - 2)
              /\ Depth(Eng) > 1 =>
                    \E nl \in {<<>>, Txt(<<"\n">>)} :
                        SerializeMap_end(Eng).dst
                            = dst \o nl \o HeaderLine(stack, Depth(Eng) - 1)

\* A struct in a struct has written its header and a field and has ended;
\* the next scalar field of the outer struct has failed.
C28_Witness ==
    /\ result = "ValueAfterTable"
    /\ dst = Txt(<<"[", "a", "]", "\n", "a", " ", "=", " ", "1", "\n">>)

(***************************************************************************)
(* C29: the resolved element type of an array is unset when the array is   *)
(* opened, is set to the type the first element announces, and never       *)
(* changes afterwards: an element that announces the same type leaves it   *)
(* as it is, an element that announces another type fails with             *)
(* ArrayMixedType, and no other handler touches it.                        *)
(***************************************************************************)
\* The arrays open in old whose type is resolved have the same type in new,
\* as far as they are still open.
TypesKept(old, new) ==
    \A i \in 1..Len(old) :
        (i <= Len(new) /\ old[i].kind = "Array" /\ old[i].type_ # "None")
            => new[i].type_ = old[i].type_

C29_ArrayTypeFixed ==
    Running =>
        /\ \A s \in AtValue : \A c \in TaggedCalls :
              /\ TypesKept(stack, Value(s, c).stack)
              /\ (c.op = "seq" /\ Value(s, c).err = "Ok") =>
                    /\ Depth(Value(s, c)) = Depth(s) + 1
                    /\ Top(Value(s, c)).kind = "Array"
                    /\ Top(Value(s, c)).type_ = "None"
              /\ (stack # <<>> /\ Top(Eng).kind = "Array") =>
                    IF Top(Eng).type_ \in {"None", TagOf(c)}
                    THEN Value(s, c).err = "Ok"
                            => Value(s, c).stack[Depth(s)].type_ = TagOf(c)
                    ELSE Value(s, c).err = "ArrayMixedType"
        /\ stack # <<>> =>
              /\ TypesKept(stack, SerializeSeq_end(Eng).stack)
              /\ TypesKept(stack, SerializeMap_end(Eng).stack)
              /\ TypesKept(stack, SerializeStruct_end(Eng).stack)
              /\ \A c \in GenericCalls :
                    c.op \in {"key", "key_other"}
                        => TypesKept(stack, serialize_key(Eng, c).stack)

\* An array at the root has had two integers.
C29_Witness ==
    /\ Len(stack) = 1
    /\ Top(Eng).kind = "Array"
    /\ Top(Eng).type_ = "integer"
    /\ dst = Txt(<<"[", "1", ",", " ", "1">>)

(***************************************************************************)
(* C30: a table is opened with first = true and table_emitted = false,     *)
(* whatever the flags of the tables around it, and opening it changes no   *)
(* flag of another table; while a table is open its first only goes from   *)
(* true to false and its table_emitted only from false to true; a field of *)
(* a table changes the first of no table around it.                        *)
(***************************************************************************)
Flags(f) == <<f.first, f.table_emitted>>

\* The tables open in old that are still open in new: first has not been
\* set again and table_emitted has not been cleared.
FlagsMonotone(old, new) ==
    \A i \in 1..Len(old) :
        (i <= Len(new) /\ old[i].kind = "Table") =>
            /\ new[i].first => old[i].first
            /\ old[i].table_emitted => new[i].table_emitted

C30_TableFlags ==
    Running =>
        /\ \A s \in AtValue : \A c \in GenericCalls :
              c.op \in {"bool", "integer", "float", "str", "none",
                        "unsupported", "seq", "map", "struct"} =>
                  /\ FlagsMonotone(s.stack, Value(s, c).stack)
                  /\ (/\ c.op = "map" \/ (c.op = "struct" /\ c.cls = "table")
                      /\ Value(s, c).err = "Ok") =>
                        /\ Depth(Value(s, c)) = Depth(s) + 1
                        /\ Top(Value(s, c)).kind = "Table"
                        /\ Flags(Top(Value(s, c))) = <<TRUE, FALSE>>
                        /\ \A i \in 1..Depth(s) :
                              Flags(Value(s, c).stack[i]) = Flags(s.stack[i])
                  /\ (/\ c \in ScalarCalls
                      /\ s.stack # <<>>
                      /\ Top(s).kind = "Table"
                      /\ Value(s, c).err = "Ok") =>
                        /\ ~Top(Value(s, c)).first
                        /\ \A i \in 1..(Depth(s) - 1) :
                              Value(s, c).stack[i].first = s.stack[i].first
        /\ stack # <<>> =>
              /\ FlagsMonotone(stack, SerializeSeq_end(Eng).stack)
              /\ FlagsMonotone(stack, SerializeMap_end(Eng).stack)
              /\ FlagsMonotone(stack, SerializeStruct_end(Eng).stack)
              /\ \A c \in GenericCalls :
                    c.op \in {"key", "key_other"}
                        => FlagsMonotone(stack, serialize_key(Eng, c).stack)

\* A table is open in a table that has written a field and is marked by the
\* header of an earlier table.
C30_Witness ==
    /\ Len(stack) = 2
    /\ stack[1].kind = "Table" /\ stack[2].kind = "Table"
    /\ Flags(stack[1]) = <<FALSE, TRUE>>
    /\ Flags(stack[2]) = <<TRUE, FALSE>>

(***************************************************************************)
(* C31: the header of a table is written after one empty line exactly when *)
(* the table that holds it (seen through one array, for an element of an   *)
(* array of tables) has had a field before, its first flag being false;    *)
(* otherwise the header line follows what was written with no empty line.  *)
(***************************************************************************)
\* The table the chain st[1..d] is a field of has had a field.
HadField(st, d) ==
    IF st[d].kind = "Table" THEN ~st[d].first
    ELSE d > 1 /\ st[d - 1].kind = "Table" /\ ~st[d - 1].first

\* What is written for the header of the table that is the value at the
\* chain st[1..d].
SpacedHeader(st, d) ==
    (IF HadField(st, d) THEN Txt(<<"\n">>) ELSE <<>>) \o HeaderLine(st, d)

C31_HeaderNewline ==
    Running =>
        /\ \A i \in 2..Len(stack) :
              (/\ PendingField(stack, i)
               /\ stack[i].first /\ ~stack[i].table_emitted)
                 => /\ \A c \in ScalarCalls : \A s \in AtValue :
                          IsPrefix(dst \o SpacedHeader(stack, i - 1),
                                   Value(s, c).dst)
                    /\ (i < Len(stack) /\ Top(Eng).iface = "seq"
                            /\ Top(Eng).tags = {})
                          => IsPrefix(dst \o SpacedHeader(stack, i - 1),
                                      SerializeSeq_end(Eng).dst)
        /\ (/\ Len(stack) >= 2
            /\ Top(Eng).iface = "map" /\ Top(Eng).expect = "key"
            /\ Top(Eng).first)
              => SerializeMap_end(Eng).dst
                     = dst \o SpacedHeader(stack, Len(stack) - 1)

\* A table has written a scalar field and then, after an empty line, the
\* header of a table.
C31_Witness ==
    /\ result = "none"
    /\ IsPrefix(Txt(<<"a", " ", "=", " ", "1", "\n", "\n", "[">>), dst)

(***************************************************************************)
(* C32: the engine never panics: to_string returns no panic; an array      *)
(* through which a key is emitted has its type resolved; a sequence whose  *)
(* type is not resolved has had no element; the key slot is empty when a   *)
(* key is stored in it; and a datetime aggregate is never used through the *)
(* map interface.                                                          *)
(***************************************************************************)
C32_NoPanic ==
    /\ result # "panic"
    /\ \A i \in 1..Len(stack) :
          /\ stack[i].kind = "Datetime" => stack[i].iface = "struct"
          /\ (stack[i].kind = "Array" /\ stack[i].type_ = "None")
                => (stack[i].first /\ i = Len(stack))
    /\ Running =>
          /\ \A s \in AtValue : \A c \in GenericCalls :
                c.op \in {"bool", "integer", "float", "str", "none",
                          "unsupported", "seq", "map", "struct"}
                    => Value(s, c).err # "panic"
          /\ (stack # <<>> /\ Top(Eng).iface = "seq")
                => SerializeSeq_end(Eng).err # "panic"
          /\ (stack # <<>> /\ Top(Eng).iface = "map"
                /\ Top(Eng).expect = "key") =>
                /\ SerializeMap_end(Eng).err # "panic"
                /\ \A c \in GenericCalls :
                      c.op \in {"key", "key_other"}
                          => /\ serialize_key(Eng, c).err # "panic"
                             /\ truncate(Top(Eng).key, 0) = <<>>

\* A map that has written the field a has been given its second key.
C32_Witness ==
    /\ Len(stack) = 1
    /\ Top(Eng).iface = "map"
    /\ Top(Eng).key = Txt(<<"b">>)
    /\ Top(Eng).expect = "value"
    /\ dst = Txt(<<"a", " ", "=", " ", "1", "\n">>)

(***************************************************************************)
(* C33: a table that is not the root has its header written at most once,  *)
(* and once before its first `key = ` line: when a scalar or an inline     *)
(* array has been written as a field of such a table the header of the     *)
(* table has been written exactly once, and a map that ends by writing its *)
(* header has written none before.                                         *)
(***************************************************************************)
C33_HeaderOnce ==
    /\ \A i \in 1..Len(stack) : stack[i].headers <= 1
    /\ Running =>
          /\ \A i \in 2..Len(stack) :
                (stack[i].kind = "Table" /\ PendingField(stack, i)) =>
                   /\ \A c \in ScalarCalls : \A s \in AtValue :
                         Value(s, c).err = "Ok"
                             => Value(s, c).stack[i].headers = 1
                   /\ (i < Len(stack) /\ Top(Eng).iface = "seq"
                           /\ Top(Eng).tags = {}
                           /\ SerializeSeq_end(Eng).err = "Ok")
                         => SerializeSeq_end(Eng).stack[i].headers = 1
          /\ (/\ Len(stack) >= 2
              /\ Top(Eng).iface = "map" /\ Top(Eng).expect = "key"
              /\ Top(Eng).first)
                => Top(Eng).headers = 0

(***************************************************************************)
(* C34: every header written has a path that is not empty: no line of the  *)
(* text is `[]` or `[[]]`.                                                 *)
(***************************************************************************)
\* A line begins at place i of the text t.
LineStart(t, i) == i = 1 \/ t[i - 1] = Ord("\n")

C34_HeaderPathNotEmpty ==
    \A i \in 1..Len(dst) :
        LineStart(dst, i) =>
            /\ ~IsPrefix(Txt(<<"[", "]", "\n">>), Drop(dst, i - 1))
            /\ ~IsPrefix(Txt(<<"[", "[", "]", "]", "\n">>), Drop(dst, i - 1))

(***************************************************************************)
(* C35: formatting a Value with Display never panics and gives the text    *)
(* that to_string gives, for every Value.                                  *)
(***************************************************************************)
C35_DisplayTotal ==
    result # "none" => (Value_fmt.result # "panic" /\ Value_fmt = Outcome)

(***************************************************************************)
(* C36: Value::try_from given a Value of strings, integers, booleans,      *)
(* arrays and tables returns Ok with an equal Value; it makes none of the  *)
(* checks of the text engine.                                              *)
(***************************************************************************)
C36_TryFromIdentity ==
    result # "none" => (result = "Ok" /\ built = input)

\* A table whose key has a line break and whose value is an array of an
\* integer and a string has been rebuilt.
C36_Witness ==
    /\ result = "Ok"
    /\ built = Table(<<[key |-> Txt(<<"n", "\n">>),
                        val |-> Array(<<Integer(1), String(Txt(<<"a">>))>>)]>>)
    /\ built = input

(***************************************************************************)
(* C37: the Value-building consumer never wraps an integer: a u64 above    *)
(* i64::max_value() gives a Custom error, every other integer of every     *)
(* width gives the Integer of the same number.                             *)
(***************************************************************************)
C37_NoWrap ==
    (result # "none" /\ todo # <<>> /\ Head(todo).op = "int") =>
        IF /\ Head(todo).cls = "u64"
           /\ NumberOf("u64", Head(todo).n) > i64_max
        THEN result = "Custom" /\ built = NoValue
        ELSE /\ result = "Ok"
             /\ built = Integer(NumberOf(Head(todo).cls, Head(todo).n))

\* The greatest u64 that is an i64 has been built into an Integer.
C37_Witness ==
    /\ result = "Ok"
    /\ todo = <<Call("int", i64_max, "u64", <<>>)>>
    /\ built = Integer(i64_max)

(***************************************************************************)
(* C38: the buffer is append-only during a to_string call: what it holds   *)
(* after a step begins with what it held before the step, whether the step *)
(* succeeds or fails; and so does what every handler the producer can call *)
(* next leaves in it.                                                      *)
(***************************************************************************)
C38_AppendOnly ==
    Running =>
        /\ \A s \in AtValue : \A c \in ValueCallsOffered :
              IsPrefix(dst, Value(s, c).dst)
        /\ stack # <<>> =>
              /\ Top(Eng).iface = "seq" => IsPrefix(dst, SerializeSeq_end(Eng).dst)
              /\ Top(Eng).iface = "struct"
                    => IsPrefix(dst, SerializeStruct_end(Eng).dst)
              /\ (Top(Eng).iface = "map" /\ Top(Eng).expect = "key") =>
                    /\ IsPrefix(dst, SerializeMap_end(Eng).dst)
                    /\ \A c \in GenericCalls :
                          c.op \in {"key", "key_other"}
                              => IsPrefix(dst, serialize_key(Eng, c).dst)

\* to_string has failed on the second element of an array, the first
\* element still in the buffer.
C38_Witness ==
    /\ result = "ArrayMixedType"
    /\ dst = Txt(<<"[", "1">>)

====
